---- MODULE Spec2Model ----
(***************************************************************************)
(* Interactive sorting quizzes (bubble, insertion, selection) of           *)
(* src/unnamed/part_000, as one state machine.                             *)
(*                                                                         *)
(* JavaScript arrays are modelled as TLA+ sequences; the model keeps the   *)
(* source's 0-based indices, so index k of the source is At(array, k).     *)
(* The DOM is modelled only as far as it decides which handlers the        *)
(* learner can reach (buttons, clickable cards, slots) and which message   *)
(* is shown.  setTimeout callbacks queue in firing order, so `timers` is a  *)
(* FIFO queue; a callback belongs to the engine that scheduled it.         *)
(***************************************************************************)
EXTENDS Integers, Sequences, FiniteSets, TLC

VARIABLES
    game,         \* App.gameInstance: the fields of the active engine, or NoGame
    timers,       \* pending setTimeout callbacks, in firing order
    ui,           \* what the page offers: controls, clickable cards, slots, message
    lastEvent,    \* the handler that ran last, its input, verdict and array accesses
    initialArray, \* the sequence generated by the last SortGame.init
    currentView,  \* App.currentView
    previous,     \* the engine startGame replaced, while its callbacks are pending
    sessions,     \* how many times init() has run
    decisions     \* how many decisions the engine accepted since the last init()

vars == <<game, timers, ui, lastEvent, initialArray,
          currentView, previous, sessions, decisions>>

\* What the learner's clicks and the callbacks leave alone.
session == <<initialArray, currentView, sessions>>

(***************************************************************************)
(* Bounds of the model.                                                    *)
(***************************************************************************)
\* Largest value of the size input tried in the games: every input up to it is
\* below the minimum and is clamped to 5 cards (the code clamps to [5, 20];
\* the inputs around both limits are tried on SortGame.init alone, TestSizeInputs).
MaxSize == 4
\* Card values are drawn from 1 .. MaxVal (the code draws from 1 .. 99).
MaxVal == 2
\* Largest number of setTimeout callbacks pending at once.
MaxPending == 2
\* Largest number of init() runs followed (the first start and the restarts).
MaxSessions == 2

(***************************************************************************)
(* Program constants.                                                      *)
(***************************************************************************)
MinLength == 5
MaxLength == 20

Orders == {"asc", "desc"}
Convergences == {"left", "right"}
Kinds == {"bubble", "insertion", "selection"}
Values == 1 .. MaxVal

\* Value standing for JavaScript's undefined (no card holds it).
Undefined == 0 - 1000
\* An element that was never written (a hole): read as undefined, skipped by
\* forEach.
Hole == 0 - 1001

NoGame == [kind |-> "none"]

(***************************************************************************)
(* Arrays.                                                                 *)
(***************************************************************************)
InRange(arr, k) == k \in 0 .. (Len(arr) - 1)

\* arr[k] of the source; reading outside the array or a hole yields undefined.
At(arr, k) ==
    IF InRange(arr, k) /\ arr[k + 1] # Hole THEN arr[k + 1] ELSE Undefined

\* arr[k] = v of the source: a write past the end grows the array (the
\* elements in between are holes, read as undefined); a write at a negative
\* index creates a property beside the elements and leaves them alone.
WriteAt(arr, k, v) ==
    IF InRange(arr, k) THEN [arr EXCEPT ![k + 1] = v]
    ELSE IF k < 0 THEN arr
    ELSE [p \in 1 .. (k + 1) |->
             IF p <= Len(arr) THEN arr[p] ELSE IF p = k + 1 THEN v ELSE Hole]

\* this.array[k] with the properties a write at a negative index left behind.
Get(g, k) ==
    IF k >= 0 THEN At(g.array, k)
    ELSE IF \E q \in g.props : q[1] = k
         THEN (CHOOSE q \in g.props : q[1] = k)[2]
         ELSE Undefined

\* this.array[k] = v
Put(g, k, v) ==
    IF k >= 0 THEN [g EXCEPT !.array = WriteAt(g.array, k, v)]
    ELSE [g EXCEPT !.props = {q \in g.props : q[1] # k} \cup {<<k, v>>}]

\* [this.array[a], this.array[b]] = [this.array[b], this.array[a]]
Exchange(g, a, b) == Put(Put(g, a, Get(g, b)), b, Get(g, a))

\* arr.splice(k, 1): a negative start counts from the end, a start past the
\* end removes nothing.
RemoveAt(arr, k) ==
    LET p == IF k < 0 THEN (IF Len(arr) + k < 0 THEN 0 ELSE Len(arr) + k) ELSE k
    IN  IF InRange(arr, p)
        THEN SubSeq(arr, 1, p) \o SubSeq(arr, p + 2, Len(arr))
        ELSE arr

\* arr.splice(k, 0, v): a negative start counts from the end, and the start
\* is clamped to [0, length]
InsertAt(arr, k, v) ==
    LET q == IF k < 0 THEN Len(arr) + k ELSE k
        p == IF q < 0 THEN 0 ELSE IF q > Len(arr) THEN Len(arr) ELSE q
    IN  SubSeq(arr, 1, p) \o <<v>> \o SubSeq(arr, p + 1, Len(arr))

\* Sequences of the given length over Values.
ArraysOf(n) == [1 .. n -> Values]

(***************************************************************************)
(* Messages, events and timers.                                            *)
(***************************************************************************)
Msg(type, text, a, b) == [type |-> type, text |-> text, a |-> a, b |-> b]

NoMsg == Msg("normal", "", 0, 0)

Event(op, action, index, accepted, accessed) ==
    [op |-> op, action |-> action, index |-> index,
     accepted |-> accepted, accessed |-> accessed]

\* A pending callback of the active engine.
Timer(fn, index) == [fn |-> fn, index |-> index, own |-> "game"]

\* The callbacks after startGame has replaced the engine: they still refer to
\* the engine that scheduled them.
Orphaned(ts) == [p \in 1 .. Len(ts) |-> [ts[p] EXCEPT !.own = "previous"]]

\* `sorted` holds the indices of the cards marked one by one with the class
\* 'sorted'; `allSorted` says that every card on the board was marked at once
\* (querySelectorAll('.card')) since the board was last rebuilt.
EmptyUi == [controls |-> FALSE, pick |-> {}, slots |-> {}, clickable |-> {},
            instruction |-> NoMsg, sorted |-> {}, allSorted |-> FALSE]

(***************************************************************************)
(* SortGame: the base class.                                               *)
(***************************************************************************)
\* The size inputs tried: a non-numeric value, and the integers 0 .. MaxSize.
SizeInputs ==
    {[nan |-> TRUE, n |-> 0]} \cup {[nan |-> FALSE, n |-> k] : k \in 0 .. MaxSize}

\* Mutation of ClampSize: sizes above the maximum are let through.
ClampSize_noUpperLimit(input) ==
    IF input.nan \/ input.n < MinLength THEN MinLength ELSE input.n

\* parseInt and the validation constraint of SortGame.init
ClampSize(input) ==
    LET s1 == IF input.nan \/ input.n < MinLength THEN MinLength ELSE input.n
    IN  IF s1 > MaxLength THEN MaxLength ELSE s1

\* The constructors: the fields every engine starts with.
NewGame(kind) ==
    [kind |-> kind, array |-> <<>>, isComplete |-> FALSE,
     sortOrder |-> "asc", convergence |-> "right",
     i |-> 0, j |-> 0,
     boundary |-> 0, currentVal |-> Undefined, currentIndex |-> Undefined,
     sortedIndex |-> 0, props |-> {}]

\* SortGame.init up to render(): settings read, array generated.
SortGame_init(g, arr, order, conv) ==
    [g EXCEPT !.sortOrder = order, !.convergence = conv,
              !.array = arr, !.props = {}, !.isComplete = FALSE]

\* Mutation of shouldPrecede: equal values precede each other.
shouldPrecede_orEqual(g, a, b) ==
    IF a = Undefined \/ b = Undefined THEN FALSE
    ELSE IF g.sortOrder = "asc" THEN a <= b ELSE a >= b

\* a < b or a > b of the source; a comparison with undefined is false.
shouldPrecede(g, a, b) ==
    IF a = Undefined \/ b = Undefined THEN FALSE
    ELSE IF g.sortOrder = "asc" THEN a < b ELSE a > b

\* Mutation of playSuccess: the cards are left as they are.
playSuccess_noMarking(u) ==
    [u EXCEPT !.instruction = Msg("success", "complete", 0, 0), !.controls = FALSE]

\* playSuccess: the success message, every card on the board marked sorted,
\* every control removed.
playSuccess(u) ==
    [u EXCEPT !.instruction = Msg("success", "complete", 0, 0), !.controls = FALSE,
              !.allSorted = TRUE]

\* SortGame.render: the board is rebuilt from the array; the new cards carry
\* no click handler and no mark, and the slots are gone.
render(u) == [u EXCEPT !.pick = {}, !.slots = {}, !.clickable = {},
                       !.sorted = {}, !.allSorted = FALSE]

(***************************************************************************)
(* BubbleSortGame.                                                         *)
(***************************************************************************)
\* The active pair.
idx1(g) == IF g.convergence = "right" THEN g.j ELSE g.j - 1
idx2(g) == IF g.convergence = "right" THEN g.j + 1 ELSE g.j

\* updateState: the comparison prompt (nothing when complete).
updateState(g, u) ==
    IF g.isComplete THEN u
    ELSE [u EXCEPT !.instruction =
             Msg("normal", "compare", Get(g, idx1(g)), Get(g, idx2(g)))]

updateStateReads(g) == IF g.isComplete THEN {} ELSE {idx1(g), idx2(g)}

\* Mutation of BubbleSortGame.init: the left-convergence cursor starts at
\* length - 2, so the first pass misses the last pair.
BubbleSortGame_init_startsShort(g, arr, order, conv) ==
    LET g1 == SortGame_init([g EXCEPT !.i = 0, !.j = 0], arr, order, conv)
    IN  [g1 EXCEPT !.j = IF conv = "left" THEN Len(arr) - 2 ELSE 0]

\* Mutation of BubbleSortGame.init: the left-convergence cursor starts at
\* length instead of length - 1.
BubbleSortGame_init_jAtLength(g, arr, order, conv) ==
    LET g1 == SortGame_init([g EXCEPT !.i = 0, !.j = 0], arr, order, conv)
    IN  [g1 EXCEPT !.j = IF conv = "left" THEN Len(arr) ELSE 0]

BubbleSortGame_init(g, arr, order, conv) ==
    LET g1 == SortGame_init([g EXCEPT !.i = 0, !.j = 0], arr, order, conv)
    IN  [g1 EXCEPT !.j = IF conv = "left" THEN Len(arr) - 1 ELSE 0]

\* Mutation of shouldSwap: equal values are not singled out, so an equal pair
\* counts as out of order.
shouldSwap_noEqualCheck(g) ==
    ~shouldPrecede(g, Get(g, idx1(g)), Get(g, idx2(g)))

\* Mutation of shouldSwap: the comparison is hard-coded to ascending order.
shouldSwap_ascOnly(g) ==
    Get(g, idx1(g)) > Get(g, idx2(g))

\* shouldSwap of handleAction
shouldSwap(g) ==
    LET leftVal == Get(g, idx1(g))
        rightVal == Get(g, idx2(g))
    IN  IF leftVal = rightVal THEN FALSE
        ELSE ~shouldPrecede(g, leftVal, rightVal)

\* correct of handleAction: every action other than 'swap' is the no-swap action
correct(g, action) ==
    IF action = "swap" THEN shouldSwap(g) ELSE ~shouldSwap(g)

\* Mutation of handleActionArray: an accepted swap leaves the pair in place.
handleActionArray_noExchange(g, action) == g

\* The engine after an accepted action: the active pair exchanged on 'swap'.
handleActionArray(g, action) ==
    IF action = "swap" THEN Exchange(g, idx1(g), idx2(g)) ELSE g

\* Mutation of handleAction: the exchange is made before the action is validated.
handleAction_swapFirst(g, action) ==
    IF g.isComplete THEN g
    ELSE handleActionArray(g, action)

\* handleAction, the engine's side: nothing when complete, nothing on a wrong
\* action, the exchange on an accepted swap.
handleAction(g, action) ==
    IF g.isComplete THEN g
    ELSE IF correct(g, action)
         THEN handleActionArray(g, action)
         ELSE g

\* The error message of a rejected action.
handleActionError(action) ==
    IF action = "swap" THEN Msg("error", "noSwapNeeded", 0, 0)
    ELSE Msg("error", "mustSwap", 0, 0)

\* Does the card `card-k` exist on a board rendered from `board`?  (render
\* creates one card per element.)
CardOn(board, k) == InRange(board, k) /\ board[k + 1] # Hole

\* Does the card `card-k` exist on the board the engine rendered?
CardExists(g, k) == CardOn(g.array, k)

\* Marking the cards `marks` of the board rendered from `board`: a card that
\* does not exist is skipped (`if (card)`).
markSorted(board, marks, u) ==
    [u EXCEPT !.sorted = @ \cup {k \in marks : CardOn(board, k)}]

\* BubbleSortGame.render: the board rebuilt, then the last i cards (right) or
\* the first i cards (left) marked sorted.
BubbleSortGame_render(g, u) ==
    markSorted(g.array,
               IF g.convergence = "right"
               THEN {Len(g.array) - 1 - k : k \in 0 .. (g.i - 1)}
               ELSE 0 .. (g.i - 1),
               render(u))

\* Flashing the active pair throws when one of its cards does not exist: an
\* accepted action then ends before its nextStep is scheduled.
handleActionThrows(g, action) ==
    LET g1 == handleActionArray(g, action)
    IN  ~CardExists(g1, idx1(g)) \/ ~CardExists(g1, idx2(g))

\* Mutation of nextStepOn: completion is detected one pass late (i >= length).
nextStepOn_latePass(g, board) ==
    IF g.convergence = "right"
    THEN LET g1 == [g EXCEPT !.j = g.j + 1]
             endOfPass == g1.j >= Len(g.array) - 1 - g.i
             g2 == IF endOfPass THEN [g1 EXCEPT !.j = 0, !.i = g.i + 1] ELSE g1
         IN  IF g2.i >= Len(g.array) THEN [g2 EXCEPT !.isComplete = TRUE] ELSE g2
    ELSE LET g1 == [g EXCEPT !.j = g.j - 1]
             endOfPass == g1.j <= g.i
             g2 == IF endOfPass
                   THEN [g1 EXCEPT !.i = g.i + 1, !.j = Len(g.array) - 1]
                   ELSE g1
         IN  IF g2.i >= Len(g.array) THEN [g2 EXCEPT !.isComplete = TRUE] ELSE g2

\* Mutation of nextStepOn: under right convergence a pass runs to the end of
\* the sequence whatever the pass counter, so settled indices are compared.
nextStepOn_fullPass(g, board) ==
    IF g.convergence = "right"
    THEN LET g1 == [g EXCEPT !.j = g.j + 1]
             endOfPass == g1.j >= Len(g.array) - 1
             g2 == IF endOfPass THEN [g1 EXCEPT !.j = 0, !.i = g.i + 1] ELSE g1
         IN  IF g2.i >= Len(g.array) - 1
             THEN [g2 EXCEPT !.isComplete = TRUE]
             ELSE g2
    ELSE LET g1 == [g EXCEPT !.j = g.j - 1]
             endOfPass == g1.j <= g.i
             g2 == IF endOfPass
                   THEN [g1 EXCEPT !.i = g.i + 1, !.j = Len(g.array) - 1]
                   ELSE g1
         IN  IF g2.i >= Len(g.array) - 1
             THEN [g2 EXCEPT !.isComplete = TRUE]
             ELSE g2

\* Mutation of nextStepOn: under left convergence a pass runs down to index 0
\* whatever the pass counter, so settled indices are compared.
nextStepOn_downToZero(g, board) ==
    IF g.convergence = "right"
    THEN LET g1 == [g EXCEPT !.j = g.j + 1]
             endOfPass == g1.j >= Len(g.array) - 1 - g.i
             g2 == IF endOfPass THEN [g1 EXCEPT !.j = 0, !.i = g.i + 1] ELSE g1
         IN  IF g2.i >= Len(g.array) - 1
             THEN [g2 EXCEPT !.isComplete = TRUE]
             ELSE g2
    ELSE LET g1 == [g EXCEPT !.j = g.j - 1]
             endOfPass == g1.j <= 0
             g2 == IF endOfPass
                   THEN [g1 EXCEPT !.i = g.i + 1, !.j = Len(g.array) - 1]
                   ELSE g1
         IN  IF g2.i >= Len(g.array) - 1
             THEN [g2 EXCEPT !.isComplete = TRUE]
             ELSE g2

\* nextStep on a page whose board was rendered from `board`: the cursor
\* advances; at the end of a pass the pass counter does.  Looking up a card
\* that does not exist throws, which ends the callback with only the cursor
\* moved.
nextStepOn(g, board) ==
    IF g.convergence = "right"
    THEN LET g1 == [g EXCEPT !.j = g.j + 1]
             endOfPass == g1.j >= Len(g.array) - 1 - g.i
             throws == endOfPass /\ ~CardOn(board, Len(g.array) - 1 - g.i)
             g2 == IF endOfPass THEN [g1 EXCEPT !.j = 0, !.i = g.i + 1] ELSE g1
         IN  IF throws THEN g1
             ELSE IF g2.i >= Len(g.array) - 1
                  THEN [g2 EXCEPT !.isComplete = TRUE]
                  ELSE g2
    ELSE LET g1 == [g EXCEPT !.j = g.j - 1]
             endOfPass == g1.j <= g.i
             throws == endOfPass /\ ~CardOn(board, g.i)
             g2 == IF endOfPass
                   THEN [g1 EXCEPT !.i = g.i + 1, !.j = Len(g.array) - 1]
                   ELSE g1
         IN  IF throws THEN g1
             ELSE IF g2.i >= Len(g.array) - 1
                  THEN [g2 EXCEPT !.isComplete = TRUE]
                  ELSE g2

\* nextStep of the engine whose own array is on the board.
nextStep(g) == nextStepOn(g, g.array)

\* Did nextStep reach its last statement (no exception)?
nextStepReturnsOn(g, board) ==
    IF g.convergence = "right"
    THEN ~(g.j + 1 >= Len(g.array) - 1 - g.i /\ ~CardOn(board, Len(g.array) - 1 - g.i))
    ELSE ~(g.j - 1 <= g.i /\ ~CardOn(board, g.i))

nextStepReturns(g) == nextStepReturnsOn(g, g.array)

\* The card nextStep marks sorted at the end of a pass.
passCard(g) == IF g.convergence = "right" THEN Len(g.array) - 1 - g.i ELSE g.i

\* Is the step nextStep takes from g the last of its pass?
endsPass(g) ==
    IF g.convergence = "right" THEN g.j + 1 >= Len(g.array) - 1 - g.i
    ELSE g.j - 1 <= g.i

\* nextStep, the page's side, on the board rendered from `board`: at the end
\* of a pass one card is marked sorted; then the success message or the next
\* comparison.  Nothing when the card to mark does not exist (the callback
\* ends with the exception).
nextStepUi(g, board, u) ==
    LET g2 == nextStepOn(g, board)
        u1 == IF endsPass(g) THEN markSorted(board, {passCard(g)}, u) ELSE u
    IN  IF ~nextStepReturnsOn(g, board) THEN u
        ELSE IF g2.isComplete THEN playSuccess(u1)
        ELSE updateState(g2, u1)

(***************************************************************************)
(* InsertionSortGame.                                                      *)
(***************************************************************************)
\* Mutation of InsertionSortGame.init: two elements count as settled at the
\* start.
InsertionSortGame_init_twoSettled(g, arr, order, conv) ==
    LET g1 == SortGame_init(g, arr, order, conv)
    IN  [g1 EXCEPT !.boundary = IF conv = "left" THEN 1 ELSE Len(arr) - 2]

InsertionSortGame_init(g, arr, order, conv) ==
    LET g1 == SortGame_init(g, arr, order, conv)
    IN  [g1 EXCEPT !.boundary = IF conv = "left" THEN 0 ELSE Len(arr) - 1]

\* completed of promptPick
pickCompleted(g) ==
    IF g.convergence = "left"
    THEN g.boundary >= Len(g.array) - 1
    ELSE g.boundary <= 0

\* Mutation of pickIndex: the card at the boundary itself is offered.
pickIndex_atBoundary(g) == g.boundary

\* pickIndex of promptPick
pickIndex(g) ==
    IF g.convergence = "left" THEN g.boundary + 1 ELSE g.boundary - 1

\* Mutation of promptPick: the callback also moves the boundary on.
promptPick_movesBoundary(g) ==
    IF pickCompleted(g) THEN [g EXCEPT !.isComplete = TRUE]
    ELSE [g EXCEPT !.boundary = IF g.convergence = "left"
                                 THEN g.boundary + 1 ELSE g.boundary - 1]

\* promptPick, the engine's side: completion is detected here.
promptPick(g) ==
    IF pickCompleted(g) THEN [g EXCEPT !.isComplete = TRUE] ELSE g

\* promptPick, the page's side: the one pick target becomes clickable.
promptPickUi(g, u) ==
    IF pickCompleted(g) THEN playSuccess(u)
    ELSE [u EXCEPT !.instruction = Msg("normal", "pick", 0, 0),
                   !.pick = IF CardExists(g, pickIndex(g))
                            THEN u.pick \cup {pickIndex(g)} ELSE u.pick]

\* Mutation of handlePick: the index of the picked card is not recorded.
handlePick_valueOnly(g, index) ==
    [g EXCEPT !.currentVal = At(g.array, index)]

handlePick(g, index) ==
    [g EXCEPT !.currentVal = At(g.array, index), !.currentIndex = index]

\* The settled region scanned by showSlots and handleInsert.
rangeStart(g) == IF g.convergence = "left" THEN 0 ELSE g.boundary
rangeEnd(g) == IF g.convergence = "left" THEN g.boundary ELSE Len(g.array) - 1

\* showSlots: one slot before each settled card and one after the last.
showSlots(g) == rangeStart(g) .. (rangeEnd(g) + 1)

\* The indices showSlots reads to draw the cards.
showSlotsReads(g) ==
    (rangeStart(g) .. rangeEnd(g)) \cup
    (IF g.convergence = "left"
     THEN (g.currentIndex + 1) .. (Len(g.array) - 1)
     ELSE 0 .. (g.currentIndex - 1))

\* Mutation of correctSlotFrom: the scan stops at the first settled value that
\* does not precede the picked one, so equal values count as a match.
RECURSIVE correctSlotFrom_beforeEqual(_, _)
correctSlotFrom_beforeEqual(g, k) ==
    IF k > (IF g.convergence = "left" THEN g.boundary ELSE Len(g.array) - 1)
    THEN (IF g.convergence = "left" THEN g.boundary ELSE Len(g.array) - 1) + 1
    ELSE IF ~shouldPrecede(g, At(g.array, k), g.currentVal) THEN k
    ELSE correctSlotFrom_beforeEqual(g, k + 1)

\* The loop of handleInsert from index k: the first index of the settled
\* region whose value the picked value should precede, or the default.
RECURSIVE correctSlotFrom(_, _)
correctSlotFrom(g, k) ==
    IF k > rangeEnd(g) THEN rangeEnd(g) + 1
    ELSE IF shouldPrecede(g, g.currentVal, At(g.array, k)) THEN k
    ELSE correctSlotFrom(g, k + 1)

correctSlot(g) == correctSlotFrom(g, rangeStart(g))

\* Mutation of insertAt: the shift introduced by the removal is ignored.
insertAt_noShift(g, slotIndex) == slotIndex

\* insertAt of handleInsert: corrected for the shift the removal introduces
insertAt(g, slotIndex) ==
    IF slotIndex > g.currentIndex THEN slotIndex - 1 ELSE slotIndex

\* Mutation of handleInsert: the boundary is incremented under either
\* convergence.
handleInsert_boundaryUp(g, slotIndex) ==
    LET val == At(g.array, g.currentIndex)
        removed == RemoveAt(g.array, g.currentIndex)
    IN  IF slotIndex = correctSlot(g)
        THEN [g EXCEPT !.array = InsertAt(removed, insertAt(g, slotIndex), val),
                       !.boundary = g.boundary + 1]
        ELSE g

\* Mutation of handleInsert: the picked value is reinserted without having
\* been removed from its original index.
handleInsert_noRemove(g, slotIndex) ==
    LET val == At(g.array, g.currentIndex)
        removed == RemoveAt(g.array, g.currentIndex)
    IN  IF slotIndex = correctSlot(g)
        THEN [g EXCEPT !.array = [InsertAt(removed, insertAt(g, slotIndex), val)
                                      EXCEPT ![Len(g.array)] = val],
                       !.boundary = IF g.convergence = "left"
                                    THEN g.boundary + 1 ELSE g.boundary - 1]
        ELSE g

\* handleInsert, the engine's side: on the correct slot remove, reinsert and
\* move the boundary; nothing on a wrong slot.
handleInsert(g, slotIndex) ==
    LET val == At(g.array, g.currentIndex)
        removed == RemoveAt(g.array, g.currentIndex)
    IN  IF slotIndex = correctSlot(g)
        THEN [g EXCEPT !.array = InsertAt(removed, insertAt(g, slotIndex), val),
                       !.boundary = IF g.convergence = "left"
                                    THEN g.boundary + 1 ELSE g.boundary - 1]
        ELSE g

\* The indices handleInsert addresses: the scan up to the accepted slot, and
\* on acceptance the removal and the reinsertion.
handleInsertAccesses(g, slotIndex) ==
    LET last == IF correctSlot(g) > rangeEnd(g) THEN rangeEnd(g) ELSE correctSlot(g)
    IN  (rangeStart(g) .. last) \cup
        (IF slotIndex = correctSlot(g)
         THEN {g.currentIndex, insertAt(g, slotIndex)} ELSE {})

(***************************************************************************)
(* SelectionSortGame.                                                      *)
(***************************************************************************)
SelectionSortGame_init(g, arr, order, conv) ==
    LET g1 == SortGame_init(g, arr, order, conv)
    IN  [g1 EXCEPT !.sortedIndex = IF conv = "left" THEN 0 ELSE Len(arr) - 1]

\* Mutation of targetCompleted: completion is detected one selection late.
targetCompleted_late(g) ==
    IF g.convergence = "left"
    THEN g.sortedIndex >= Len(g.array)
    ELSE g.sortedIndex < 0

\* completed of promptFindTarget
targetCompleted(g) ==
    IF g.convergence = "left"
    THEN g.sortedIndex >= Len(g.array) - 1
    ELSE g.sortedIndex <= 0

\* start .. end of promptFindTarget: the unsettled region
scanStart(g) == IF g.convergence = "left" THEN g.sortedIndex ELSE 0
scanEnd(g) == IF g.convergence = "left" THEN Len(g.array) - 1 ELSE g.sortedIndex

promptFindTarget(g) ==
    IF targetCompleted(g) THEN [g EXCEPT !.isComplete = TRUE] ELSE g

promptFindTargetUi(g, u) ==
    IF targetCompleted(g) THEN playSuccess(render(u))
    ELSE [u EXCEPT !.instruction =
                       Msg("normal", "findTarget",
                           IF g.convergence = "left" THEN g.sortedIndex + 1
                           ELSE Len(g.array) - g.sortedIndex, 0),
                   !.clickable = u.clickable \cup
                       {k \in scanStart(g) .. scanEnd(g) : CardExists(g, k)}]

\* Mutation of bestFrom: the scan looks for the first element under both
\* convergence directions.
RECURSIVE bestFrom_leftOnly(_, _, _)
bestFrom_leftOnly(g, k, bestIdx) ==
    IF k > (IF g.convergence = "left" THEN Len(g.array) - 1 ELSE g.sortedIndex)
    THEN bestIdx
    ELSE IF shouldPrecede(g, At(g.array, k), At(g.array, bestIdx))
         THEN bestFrom_leftOnly(g, k + 1, k)
         ELSE bestFrom_leftOnly(g, k + 1, bestIdx)

\* The scan of handleSelection from index k with the best candidate so far.
RECURSIVE bestFrom(_, _, _)
bestFrom(g, k, bestIdx) ==
    IF k > scanEnd(g) THEN bestIdx
    ELSE IF g.convergence = "left"
         THEN IF shouldPrecede(g, At(g.array, k), At(g.array, bestIdx))
              THEN bestFrom(g, k + 1, k)
              ELSE bestFrom(g, k + 1, bestIdx)
         ELSE IF shouldPrecede(g, At(g.array, bestIdx), At(g.array, k))
              THEN bestFrom(g, k + 1, k)
              ELSE bestFrom(g, k + 1, bestIdx)

correctIdx(g) == bestFrom(g, scanStart(g) + 1, scanStart(g))
correctVal(g) == At(g.array, correctIdx(g))

\* Mutation of selectionAccepted: only the index the scan found is accepted.
selectionAccepted_indexOnly(g, index) ==
    index = bestFrom(g, (IF g.convergence = "left" THEN g.sortedIndex ELSE 0) + 1,
                     IF g.convergence = "left" THEN g.sortedIndex ELSE 0)

\* The two accepting branches of handleSelection.
selectionAccepted(g, index) ==
    index = correctIdx(g) \/ At(g.array, index) = correctVal(g)

\* handleSelection, the engine's side: the engine's fields are only read; an
\* accepted selection takes effect in the delayed callback.
handleSelection(g, index) == g

\* Mutation of swapCallback: the settled region does not grow.
swapCallback_noAdvance(g, index) == Exchange(g, g.sortedIndex, index)

\* Mutation of swapCallback: selecting the card already at sortedIndex is a
\* no-op, so the settled region does not grow in that case.
swapCallback_skipSelf(g, index) ==
    IF index = g.sortedIndex THEN g
    ELSE [Exchange(g, g.sortedIndex, index) EXCEPT
              !.sortedIndex = IF g.convergence = "left"
                              THEN g.sortedIndex + 1 ELSE g.sortedIndex - 1]

\* The delayed callback of an accepted selection.
swapCallback(g, index) ==
    [Exchange(g, g.sortedIndex, index) EXCEPT
              !.sortedIndex = IF g.convergence = "left"
                              THEN g.sortedIndex + 1 ELSE g.sortedIndex - 1]

\* SelectionSortGame.render: the board rebuilt, then the cards below (left)
\* or above (right) sortedIndex marked sorted.
SelectionSortGame_render(g, u) ==
    markSorted(g.array,
               IF g.convergence = "left" THEN 0 .. (g.sortedIndex - 1)
               ELSE (g.sortedIndex + 1) .. (Len(g.array) - 1),
               render(u))

\* The swap callback, the page's side.  After a selection of the index the
\* scan found the board is rendered again once sortedIndex has moved; after
\* a selection of another card of the same value it is rendered only before.
swapCallbackUi(g, index, u) ==
    IF index = correctIdx(g)
    THEN SelectionSortGame_render(swapCallback(g, index), u)
    ELSE SelectionSortGame_render(Exchange(g, g.sortedIndex, index), u)

(***************************************************************************)
(* startGame / init: a new engine is created and initialised.              *)
(***************************************************************************)
\* init() on the engine g: the fields init does not assign keep their values.
initOn(g, arr, order, conv) ==
    IF g.kind = "bubble" THEN BubbleSortGame_init(g, arr, order, conv)
    ELSE IF g.kind = "insertion"
         THEN promptPick(InsertionSortGame_init(g, arr, order, conv))
         ELSE promptFindTarget(SelectionSortGame_init(g, arr, order, conv))

\* The engine after its constructor and its init() have run.
initGame(kind, arr, order, conv) == initOn(NewGame(kind), arr, order, conv)

\* The page after init(): controls cleared, board rendered, first prompt shown.
initUi(kind, arr, order, conv, u) ==
    LET cleared == render([u EXCEPT !.controls = FALSE])
    IN  IF kind = "bubble"
        THEN updateState(BubbleSortGame_init(NewGame(kind), arr, order, conv),
                         [cleared EXCEPT !.controls = TRUE])
        ELSE IF kind = "insertion"
             THEN promptPickUi(InsertionSortGame_init(NewGame(kind), arr, order, conv),
                               markSorted(arr,
                                          {IF conv = "left" THEN 0 ELSE Len(arr) - 1},
                                          cleared))
             ELSE promptFindTargetUi(
                      SelectionSortGame_init(NewGame(kind), arr, order, conv), cleared)

Init ==
    /\ game = NoGame
    /\ timers = <<>>
    /\ ui = EmptyUi
    /\ lastEvent = Event("none", "", Undefined, FALSE, {})
    /\ initialArray = <<>>
    /\ currentView = "menu"
    /\ previous = NoGame
    /\ sessions = 0
    /\ decisions = 0

\* Is a callback of a replaced engine still pending?
OrphansPending == \E p \in 1 .. Len(timers) : timers[p].own = "previous"

\* The menu is shown, and the run stays within the sessions and the engines
\* the model follows (the active engine and one replaced engine).
CanStart ==
    /\ currentView = "menu"
    /\ sessions < MaxSessions
    /\ ~OrphansPending

\* startGame(kind) with the sequence generateRandomArray returns: a new engine
\* replaces the active one, whose pending callbacks keep referring to it.
StartWith(kind, arr, order, conv) ==
    /\ currentView' = "game"
    /\ game' = initGame(kind, arr, order, conv)
    /\ ui' = initUi(kind, arr, order, conv, ui)
    /\ initialArray' = arr
    /\ lastEvent' = Event("init", "", Undefined, TRUE,
                          IF kind = "bubble"
                          THEN updateStateReads(initGame(kind, arr, order, conv))
                          ELSE {})
    /\ previous' = IF timers = <<>> THEN NoGame ELSE game
    /\ timers' = Orphaned(timers)
    /\ sessions' = sessions + 1
    /\ decisions' = 0

\* A click on a menu entry: startGame(kind).
StartGame ==
    /\ CanStart
    /\ \E kind \in Kinds, size \in {ClampSize(input) : input \in SizeInputs},
          order \in Orders, conv \in Convergences :
         \E arr \in ArraysOf(size) :
             StartWith(kind, arr, order, conv)

\* A click on the back button, confirmed: backToMenu().  The engine stays in
\* App.gameInstance and its pending callbacks stay pending (cleanup is empty).
BackToMenu ==
    /\ currentView = "game"
    /\ currentView' = "menu"
    /\ lastEvent' = Event("backToMenu", "", Undefined, TRUE, {})
    /\ UNCHANGED <<game, timers, ui, initialArray, previous, sessions, decisions>>

\* A click on the reset button: resetGame() runs init() on the active engine.
\* Nothing cancels the callbacks that are pending (cleanup is empty and init
\* clears no timer), and they refer to the same engine object.
ResetGame ==
    /\ currentView = "game"
    /\ game.kind # "none"
    /\ sessions < MaxSessions
    /\ \E size \in {ClampSize(input) : input \in SizeInputs},
          order \in Orders, conv \in Convergences :
         \E arr \in ArraysOf(size) :
            /\ game' = initOn(game, arr, order, conv)
            /\ ui' = initUi(game.kind, arr, order, conv, ui)
            /\ initialArray' = arr
            /\ lastEvent' = Event("init", "", Undefined, TRUE,
                                  IF game.kind = "bubble"
                                  THEN updateStateReads(initOn(game, arr, order, conv))
                                  ELSE {})
    /\ sessions' = sessions + 1
    /\ decisions' = 0
    /\ UNCHANGED <<timers, currentView, previous>>

(***************************************************************************)
(* Learner actions.                                                        *)
(***************************************************************************)
\* A click on one of the two bubble buttons: handleAction(action).
HandleAction ==
    /\ currentView = "game"
    /\ game.kind = "bubble"
    /\ ui.controls
    /\ ~game.isComplete
    /\ \E action \in {"swap", "next"} :
         IF correct(game, action)
         THEN /\ Len(timers) < MaxPending
              /\ game' = handleAction(game, action)
              /\ ui' = IF action = "swap"
                       THEN BubbleSortGame_render(handleAction(game, action), ui)
                       ELSE ui
              /\ timers' = IF handleActionThrows(game, action) THEN timers
                            ELSE Append(timers, Timer("nextStep", Undefined))
              /\ lastEvent' = Event("handleAction", action, Undefined, TRUE,
                                    {idx1(game), idx2(game)})
              /\ decisions' = decisions + 1
         ELSE /\ game' = handleAction(game, action)
              /\ ui' = [ui EXCEPT !.instruction = handleActionError(action)]
              /\ timers' = timers
              /\ lastEvent' = Event("handleAction", action, Undefined, FALSE,
                                    {idx1(game), idx2(game)})
              /\ decisions' = decisions
    /\ UNCHANGED <<session, previous>>

\* A click on the pick target of the insertion game: handlePick(index).
HandlePick ==
    /\ currentView = "game"
    /\ game.kind = "insertion"
    /\ \E index \in ui.pick :
         /\ game' = handlePick(game, index)
         /\ ui' = [markSorted(game.array, rangeStart(game) .. rangeEnd(game),
                              render(ui))
                       EXCEPT !.slots = showSlots(handlePick(game, index)),
                             !.instruction =
                                 Msg("normal", "insertWhere", At(game.array, index), 0)]
         /\ lastEvent' = Event("handlePick", "", index, TRUE,
                               {index} \cup showSlotsReads(handlePick(game, index)))
    /\ UNCHANGED <<timers, session, previous, decisions>>

\* A click on a slot of the insertion game: handleInsert(slotIndex).
HandleInsert ==
    /\ currentView = "game"
    /\ game.kind = "insertion"
    /\ \E slotIndex \in ui.slots :
         IF slotIndex = correctSlot(game)
         THEN /\ Len(timers) < MaxPending
              /\ game' = handleInsert(game, slotIndex)
              /\ ui' = [markSorted(handleInsert(game, slotIndex).array,
                                    rangeStart(handleInsert(game, slotIndex)) ..
                                        rangeEnd(handleInsert(game, slotIndex)),
                                    render(ui))
                             EXCEPT !.instruction = Msg("success", "inserted", 0, 0)]
              /\ timers' = Append(timers, Timer("promptPick", Undefined))
              /\ lastEvent' = Event("handleInsert", "", slotIndex, TRUE,
                                    handleInsertAccesses(game, slotIndex))
              /\ decisions' = decisions + 1
         ELSE /\ game' = handleInsert(game, slotIndex)
              /\ ui' = [ui EXCEPT !.instruction =
                                      Msg("error", "wrongSlot", game.currentVal, 0)]
              /\ timers' = timers
              /\ lastEvent' = Event("handleInsert", "", slotIndex, FALSE,
                                    handleInsertAccesses(game, slotIndex))
              /\ decisions' = decisions
    /\ UNCHANGED <<session, previous>>

\* Mutation of HandleSelection: the clickable cards keep their handlers while
\* the step is in flight.
HandleSelection_keepsHandlers ==
    /\ currentView = "game"
    /\ game.kind = "selection"
    /\ \E index \in ui.clickable :
         /\ Len(timers) < MaxPending
         /\ game' = handleSelection(game, index)
         /\ IF selectionAccepted(game, index)
            THEN /\ ui' = [ui EXCEPT !.pick = {},
                                     !.instruction =
                                         Msg("success", "target", correctVal(game), 0)]
                 /\ timers' = Append(timers, Timer("swap", index))
                 /\ lastEvent' = Event("handleSelection", "", index, TRUE,
                                       {index} \cup (scanStart(game) .. scanEnd(game)))
                 /\ decisions' = decisions + 1
            ELSE /\ ui' = [ui EXCEPT !.pick = {},
                                     !.instruction =
                                         Msg("error", "notTarget",
                                             At(game.array, index), correctVal(game))]
                 /\ timers' = Append(timers, Timer("reprompt", index))
                 /\ lastEvent' = Event("handleSelection", "", index, FALSE,
                                       {index} \cup (scanStart(game) .. scanEnd(game)))
                 /\ decisions' = decisions
    /\ UNCHANGED <<session, previous>>

\* A click on a card of the selection game: handleSelection(index).  Every
\* clickable card loses its handler on entry.
HandleSelection ==
    /\ currentView = "game"
    /\ game.kind = "selection"
    /\ \E index \in ui.clickable :
         /\ Len(timers) < MaxPending
         /\ game' = handleSelection(game, index)
         /\ IF selectionAccepted(game, index)
            THEN /\ ui' = [ui EXCEPT !.clickable = {}, !.pick = {},
                                     !.instruction =
                                         Msg("success", "target", correctVal(game), 0)]
                 /\ timers' = Append(timers, Timer("swap", index))
                 /\ lastEvent' = Event("handleSelection", "", index, TRUE,
                                       {index} \cup (scanStart(game) .. scanEnd(game)))
                 /\ decisions' = decisions + 1
            ELSE /\ ui' = [ui EXCEPT !.clickable = {}, !.pick = {},
                                     !.instruction =
                                         Msg("error", "notTarget",
                                             At(game.array, index), correctVal(game))]
                 /\ timers' = Append(timers, Timer("reprompt", index))
                 /\ lastEvent' = Event("handleSelection", "", index, FALSE,
                                       {index} \cup (scanStart(game) .. scanEnd(game)))
                 /\ decisions' = decisions
    /\ UNCHANGED <<session, previous>>

(***************************************************************************)
(* Timer callbacks.                                                        *)
(***************************************************************************)
\* The next callback to fire is `fn` of the active engine.
Fires(fn) == timers # <<>> /\ Head(timers).fn = fn /\ Head(timers).own = "game"

\* setTimeout(() => this.nextStep(), this.stepDelay)
FireNextStep ==
    /\ Fires("nextStep")
    /\ game' = nextStep(game)
    /\ ui' = nextStepUi(game, game.array, ui)
    /\ timers' = Tail(timers)
    /\ lastEvent' = Event("nextStep", "", Undefined, TRUE,
                          IF nextStepReturns(game)
                          THEN updateStateReads(nextStep(game)) ELSE {})
    /\ UNCHANGED <<session, previous, decisions>>

\* setTimeout(() => this.promptPick(), this.stepDelay)
FirePromptPick ==
    /\ Fires("promptPick")
    /\ game' = promptPick(game)
    /\ ui' = promptPickUi(game, ui)
    /\ timers' = Tail(timers)
    /\ lastEvent' = Event("promptPick", "", Undefined, TRUE, {})
    /\ UNCHANGED <<session, previous, decisions>>

\* The 800 ms callback of an accepted selection: swap, render, advance, and
\* schedule the next prompt.
FireSwap ==
    /\ Fires("swap")
    /\ game' = swapCallback(game, Head(timers).index)
    /\ ui' = swapCallbackUi(game, Head(timers).index, ui)
    /\ timers' = Append(Tail(timers), Timer("promptFindTarget", Undefined))
    /\ lastEvent' = Event("swap", "", Head(timers).index, TRUE,
                          {game.sortedIndex, Head(timers).index})
    /\ UNCHANGED <<session, previous, decisions>>

\* setTimeout(() => this.promptFindTarget(), this.stepDelay)
FirePromptFindTarget ==
    /\ Fires("promptFindTarget")
    /\ game' = promptFindTarget(game)
    /\ ui' = promptFindTargetUi(game, ui)
    /\ timers' = Tail(timers)
    /\ lastEvent' = Event("promptFindTarget", "", Undefined, TRUE, {})
    /\ UNCHANGED <<session, previous, decisions>>

\* The 500 ms callback of a rejected selection: the same prompt again.
FireReprompt ==
    /\ Fires("reprompt")
    /\ game' = promptFindTarget(game)
    /\ ui' = promptFindTargetUi(game, ui)
    /\ timers' = Tail(timers)
    /\ lastEvent' = Event("reprompt", "", Head(timers).index, TRUE, {})
    /\ UNCHANGED <<session, previous, decisions>>

\* The nextStep callback of a replaced bubble engine: it runs on the engine
\* that scheduled it and on the page the active engine has drawn.  Once no
\* callback refers to the replaced engine it is unreachable.
OrphanNextStep ==
    /\ timers # <<>>
    /\ Head(timers).fn = "nextStep"
    /\ Head(timers).own = "previous"
    /\ previous.kind = "bubble"
    /\ LET p2 == nextStepOn(previous, game.array)
           returns == nextStepReturnsOn(previous, game.array)
       IN  /\ previous' = IF \E p \in 2 .. Len(timers) : timers[p].own = "previous"
                          THEN p2 ELSE NoGame
           /\ ui' = nextStepUi(previous, game.array, ui)
           /\ lastEvent' = Event("previous.nextStep", "", Undefined, TRUE,
                                 IF returns THEN updateStateReads(p2) ELSE {})
    /\ timers' = Tail(timers)
    /\ UNCHANGED <<game, session, decisions>>

TimerFires ==
    \/ FireNextStep
    \/ FirePromptPick
    \/ FireSwap
    \/ FirePromptFindTarget
    \/ FireReprompt

(***************************************************************************)
(* Spec: the learner may click whatever the page offers at any time, also  *)
(* while a callback is pending.                                            *)
(***************************************************************************)
Next ==
    \/ StartGame
    \/ HandleAction
    \/ HandlePick
    \/ HandleInsert
    \/ HandleSelection
    \/ TimerFires

Spec == Init /\ [][Next]_vars

(***************************************************************************)
(* SpecPrompt: the learner submits one action per prompt, that is, clicks  *)
(* only when no callback is pending.                                       *)
(***************************************************************************)
AtPrompt == timers = <<>>

PromptHandleAction == AtPrompt /\ HandleAction
PromptHandlePick == AtPrompt /\ HandlePick
PromptHandleInsert == AtPrompt /\ HandleInsert
PromptHandleSelection == AtPrompt /\ HandleSelection

NextPrompt ==
    \/ StartGame
    \/ PromptHandleAction
    \/ PromptHandlePick
    \/ PromptHandleInsert
    \/ PromptHandleSelection
    \/ TimerFires

SpecPrompt == Init /\ [][NextPrompt]_vars

(***************************************************************************)
(* Properties.                                                             *)
(***************************************************************************)
Started == game.kind # "none"
Complete == Started /\ game.isComplete

\* Every adjacent pair of arr precedes or is equal, under the order of g.
OrderedUnder(g, arr) ==
    \A k \in 0 .. (Len(arr) - 2) :
        shouldPrecede(g, At(arr, k), At(arr, k + 1)) \/ At(arr, k) = At(arr, k + 1)

Ordered == OrderedUnder(game, game.array)

HasDuplicates(arr) == \E a, b \in 1 .. Len(arr) : a # b /\ arr[a] = arr[b]

\* C1: with one action per prompt, a completed bubble game holds a sequence in
\* which every adjacent pair satisfies shouldPrecede or is equal, for every
\* initial sequence, both sort orders and both convergence directions.
C1_BubbleCompleteOrdered ==
    (Complete /\ game.kind = "bubble") => Ordered

\* A bubble game completed, descending and converging left, from an unordered
\* initial sequence with duplicates.
C1_Witness ==
    /\ Complete /\ game.kind = "bubble"
    /\ game.sortOrder = "desc" /\ game.convergence = "left"
    /\ HasDuplicates(initialArray)
    /\ ~OrderedUnder(game, initialArray)

\* C2: with one action per prompt, wrong slot choices allowed before the correct
\* one, a completed insertion game holds a sequence in which every adjacent pair
\* satisfies shouldPrecede or is equal.
C2_InsertionCompleteOrdered ==
    (Complete /\ game.kind = "insertion") => Ordered

\* An insertion game completed, converging right, from an unordered initial
\* sequence, the last event before the final prompt being an accepted placement.
C2_Witness ==
    /\ Complete /\ game.kind = "insertion"
    /\ game.convergence = "right"
    /\ ~OrderedUnder(game, initialArray)
    /\ game.array # initialArray

\* C3: driven by accepted selections (any index holding the extremal value), a
\* completed selection game holds a sequence in which every adjacent pair
\* satisfies shouldPrecede or is equal.
C3_SelectionCompleteOrdered ==
    (Complete /\ game.kind = "selection") => Ordered

\* A selection game completed, ascending and converging right, from an unordered
\* initial sequence with duplicates.
C3_Witness ==
    /\ Complete /\ game.kind = "selection"
    /\ game.sortOrder = "asc" /\ game.convergence = "right"
    /\ HasDuplicates(initialArray)
    /\ ~OrderedUnder(game, initialArray)

\* C4: in every state reachable by any learner actions (correct or not, also
\* while a callback is pending), a complete engine holds a fully ordered
\* sequence, and the sequence never changes once isComplete is true.
C4_CompleteOrderedAndFrozen ==
    /\ [](Complete => Ordered)
    /\ [][Complete => (Complete' /\ game'.array = game.array)]_vars

\* The second half of C4 alone (it holds: no handler changes the sequence of a
\* complete engine).
C4_CompleteFrozen ==
    [][Complete => (Complete' /\ game'.array = game.array)]_vars

\* Callbacks that advance the algorithm (the re-prompt after a rejected
\* selection shows the same prompt again and advances nothing).
IsProgressTimer(t) == t.fn # "reprompt"
ProgressTimers(ts) == SelectSeq(ts, IsProgressTimer)

\* The step just taken was a handler rejecting the learner's action.
RejectedStep ==
    /\ lastEvent'.op \in {"handleAction", "handleInsert", "handleSelection"}
    /\ ~lastEvent'.accepted

\* C5: a rejected action (wrong swap/skip, wrong slot, non-extremal index)
\* leaves the sequence, every progress index and isComplete unchanged and
\* schedules no progress step; the same action is on offer again (for
\* selection once the same prompt is shown again) and is rejected again with
\* the same error.
C5_RejectionIdempotent ==
    [][/\ RejectedStep =>
            /\ game' = game
            /\ ProgressTimers(timers') = ProgressTimers(timers)
            /\ ui'.instruction.type = "error"
            /\ game.kind = "bubble" =>
                  /\ ui'.controls
                  /\ ~correct(game', lastEvent'.action)
                  /\ handleActionError(lastEvent'.action) = ui'.instruction
            /\ game.kind = "insertion" =>
                  /\ lastEvent'.index \in ui'.slots
                  /\ lastEvent'.index # correctSlot(game')
                  /\ Msg("error", "wrongSlot", game'.currentVal, 0) = ui'.instruction
            /\ game.kind = "selection" =>
                  /\ timers' = Append(timers, Timer("reprompt", lastEvent'.index))
                  /\ ~selectionAccepted(game', lastEvent'.index)
                  /\ Msg("error", "notTarget", At(game'.array, lastEvent'.index),
                         correctVal(game')) = ui'.instruction
       /\ lastEvent'.op = "reprompt" =>
            /\ game' = game
            /\ lastEvent'.index \in ui'.clickable
            /\ ~selectionAccepted(game', lastEvent'.index)
            /\ Msg("error", "notTarget", At(game'.array, lastEvent'.index),
                   correctVal(game')) = ui.instruction
      ]_vars

\* A rejected selection under right convergence whose prompt was shown again:
\* the rejected card is on offer and would still be rejected.
C5_Witness ==
    /\ Started /\ game.kind = "selection" /\ game.convergence = "right"
    /\ lastEvent.op = "reprompt"
    /\ lastEvent.index \in ui.clickable
    /\ ~selectionAccepted(game, lastEvent.index)

\* C6: every index an engine reads or writes in the sequence lies in
\* [0, array.length): the indices the last handler addressed, the active pair
\* of a bubble prompt, the boundary, pick target and reinsertion index of the
\* insertion game, and sortedIndex, the eligible cards and the picked index of
\* a pending swap of the selection game.
C6_IndicesInRange ==
    Started =>
       /\ \A k \in lastEvent.accessed : InRange(game.array, k)
       /\ (game.kind = "bubble" /\ ~game.isComplete) =>
             InRange(game.array, idx1(game)) /\ InRange(game.array, idx2(game))
       /\ game.kind = "insertion" =>
             /\ InRange(game.array, game.boundary)
             /\ \A k \in ui.pick : InRange(game.array, k)
             /\ ui.slots # {} =>
                   /\ InRange(game.array, game.currentIndex)
                   /\ \A sl \in ui.slots : InRange(game.array, insertAt(game, sl))
       /\ game.kind = "selection" =>
             /\ InRange(game.array, game.sortedIndex)
             /\ \A k \in ui.clickable : InRange(game.array, k)
             /\ \A n \in 1 .. Len(timers) :
                   timers[n].fn = "swap" => InRange(game.array, timers[n].index)

\* An accepted placement under right convergence that read the last index,
\* removed index 0 and reinserted at the last index.
C6_Witness ==
    /\ Started /\ game.kind = "insertion" /\ game.convergence = "right"
    /\ lastEvent.op = "handleInsert" /\ lastEvent.accepted
    /\ lastEvent.index = Len(game.array)
    /\ {0, Len(game.array) - 1} \subseteq lastEvent.accessed

\* C7: handleAction in a non-complete state accepts 'swap' iff the active pair
\* is unequal and its left value does not precede its right value, and accepts
\* the no-swap action iff not; exactly one of the two actions is accepted, and
\* for equal values only the no-swap action.
C7_SwapIffShouldSwap ==
    [][lastEvent'.op = "handleAction" =>
         LET leftVal == At(game.array, idx1(game))
             rightVal == At(game.array, idx2(game))
             claimSwap == leftVal # rightVal /\ ~shouldPrecede(game, leftVal, rightVal)
             scheduled == timers' = Append(timers, Timer("nextStep", Undefined))
         IN  /\ ~game.isComplete
             /\ lastEvent'.accepted <=> scheduled
             /\ lastEvent'.action = "swap" => (scheduled <=> claimSwap)
             /\ lastEvent'.action # "swap" => (scheduled <=> ~claimSwap)
             /\ leftVal = rightVal => (scheduled <=> lastEvent'.action # "swap")
             /\ correct(game, "swap") # correct(game, "next")
      ]_vars

\* A 'swap' submitted on a pair of equal values was rejected.
C7_Witness ==
    /\ Started /\ game.kind = "bubble"
    /\ lastEvent.op = "handleAction" /\ lastEvent.action = "swap"
    /\ ~lastEvent.accepted
    /\ At(game.array, idx1(game)) = At(game.array, idx2(game))

\* The settled region of the insertion game, as C8 names it.
SettledRegion(g) ==
    IF g.convergence = "left" THEN 0 .. g.boundary
    ELSE g.boundary .. (Len(g.array) - 1)

\* The slot C8 names: the least settled index whose value the picked value
\* should precede, or the index after the last settled element.
ClaimSlot(g) ==
    LET S == {k \in SettledRegion(g) : shouldPrecede(g, g.currentVal, At(g.array, k))}
        last == IF g.convergence = "left" THEN g.boundary ELSE Len(g.array) - 1
    IN  IF S = {} THEN last + 1 ELSE CHOOSE k \in S : \A m \in S : k <= m

PlacementPhase == Started /\ game.kind = "insertion" /\ ui.slots # {}

\* C8: handleInsert accepts a slot iff it is the first settled index (in
\* increasing index order) whose value the picked value should precede, or the
\* index after the last settled element when there is none; the accepted slot
\* is unique and is one of the |settled region| + 1 slots offered.
C8_AcceptedSlot ==
    /\ [](PlacementPhase =>
            /\ ClaimSlot(game) \in ui.slots
            /\ Cardinality(ui.slots) = Cardinality(SettledRegion(game)) + 1
            /\ Cardinality({sl \in ui.slots : handleInsert(game, sl) # game}) = 1)
    /\ [][lastEvent'.op = "handleInsert" =>
            /\ lastEvent'.accepted <=> (lastEvent'.index = ClaimSlot(game))
            /\ lastEvent'.accepted <=>
                  (timers' = Append(timers, Timer("promptPick", Undefined)))
            /\ lastEvent'.accepted <=> (game' # game)
         ]_vars

\* Under left convergence a picked value was accepted at a slot strictly inside
\* the settled region, right after a settled element of the same value.
C8_Witness ==
    /\ Started /\ game.kind = "insertion" /\ game.convergence = "left"
    /\ lastEvent.op = "handleInsert" /\ lastEvent.accepted
    /\ 0 < lastEvent.index /\ lastEvent.index < game.boundary
    /\ At(game.array, lastEvent.index - 1) = At(game.array, lastEvent.index)

\* The unsettled region of the selection game, as C9 names it.
Unsettled(g) ==
    IF g.convergence = "left" THEN g.sortedIndex .. (Len(g.array) - 1)
    ELSE 0 .. g.sortedIndex

UnsettledValues(g) == {At(g.array, k) : k \in Unsettled(g)}

\* The extremal value of C9: under left convergence the value no other
\* unsettled value precedes, under right convergence the value that precedes
\* no other unsettled value.
Extremal(g) ==
    IF g.convergence = "left"
    THEN CHOOSE v \in UnsettledValues(g) :
             \A w \in UnsettledValues(g) : ~shouldPrecede(g, w, v)
    ELSE CHOOSE v \in UnsettledValues(g) :
             \A w \in UnsettledValues(g) : ~shouldPrecede(g, v, w)

MinOf(S) == CHOOSE v \in S : \A w \in S : v <= w
MaxOf(S) == CHOOSE v \in S : \A w \in S : v >= w

\* C9: handleSelection accepts an eligible index iff its value is the extremal
\* value of the unsettled region (left: min if ascending, max if descending;
\* right: max if ascending, min if descending); any index holding that value is
\* accepted.
C9_AcceptedSelection ==
    [][lastEvent'.op = "handleSelection" =>
         /\ lastEvent'.index \in Unsettled(game)
         /\ lastEvent'.accepted <=>
               (At(game.array, lastEvent'.index) = Extremal(game))
         /\ lastEvent'.accepted <=>
               (timers' = Append(timers, Timer("swap", lastEvent'.index)))
         /\ Extremal(game) =
               IF (game.convergence = "left") <=> (game.sortOrder = "asc")
               THEN MinOf(UnsettledValues(game))
               ELSE MaxOf(UnsettledValues(game))
      ]_vars

\* An accepted selection of an index other than the one the scan found: a
\* later occurrence of the extremal value, its swap pending.
C9_Witness ==
    /\ Started /\ game.kind = "selection"
    /\ lastEvent.op = "handleSelection" /\ lastEvent.accepted
    /\ lastEvent.index # correctIdx(game)
    /\ timers = <<Timer("swap", lastEvent.index)>>

OtherConvergence(conv) == IF conv = "left" THEN "right" ELSE "left"

\* Always-correct play, one action per prompt, from engine state g to
\* completion (at most `fuel` accepted actions): the final sequence.
RECURSIVE playBubble(_, _)
playBubble(g, fuel) ==
    IF g.isComplete \/ fuel = 0 THEN g.array
    ELSE playBubble(
             nextStep(handleAction(g, IF correct(g, "swap") THEN "swap" ELSE "next")),
             fuel - 1)

RECURSIVE playInsertion(_, _)
playInsertion(g, fuel) ==
    IF g.isComplete \/ fuel = 0 THEN g.array
    ELSE LET picked == handlePick(g, pickIndex(g))
         IN  playInsertion(promptPick(handleInsert(picked, correctSlot(picked))),
                           fuel - 1)

RECURSIVE playSelection(_, _)
playSelection(g, fuel) ==
    IF g.isComplete \/ fuel = 0 THEN g.array
    ELSE playSelection(promptFindTarget(swapCallback(g, correctIdx(g))), fuel - 1)

FinalArray(kind, arr, order, conv) ==
    LET g0 == initGame(kind, arr, order, conv)
        fuel == Len(arr) * Len(arr)
    IN  IF kind = "bubble" THEN playBubble(g0, fuel)
        ELSE IF kind = "insertion" THEN playInsertion(g0, fuel)
        ELSE playSelection(g0, fuel)

\* C10: the final sequence of a game completed with one action per prompt
\* equals, position by position, the final sequence of always-correct play of
\* the same engine from the same initial sequence and sort order under the
\* other convergence direction.
C10_ConvergenceSymmetry ==
    Complete =>
        game.array = FinalArray(game.kind, initialArray, game.sortOrder,
                                OtherConvergence(game.convergence))

\* An insertion game completed under left convergence from a sequence with
\* duplicates that it had to reorder.
C10_Witness ==
    /\ Complete /\ game.kind = "insertion" /\ game.convergence = "left"
    /\ HasDuplicates(initialArray)
    /\ game.array # initialArray

(***************************************************************************)
(* SpecGiven: the engines on given sequences.  SortGame.init only ever     *)
(* hands an engine a sequence of 5 to 20 cards; here init() runs with the  *)
(* result of generateRandomArray replaced by a short sequence or by one of *)
(* the worked scenarios, the engines' own code unchanged.  The learner     *)
(* submits one action per prompt.                                          *)
(***************************************************************************)
\* Longest of the short sequences tried.
MaxShort == 2
\* Largest number of accepted decisions followed on a given sequence.
MaxDecisions == 4

BubbleScenario == <<5, 3, 4>>
SelectionScenario == <<4, 1, 3>>
InsertionScenario == <<3, 1, 2>>

ShortArrays == UNION {ArraysOf(n) : n \in 1 .. MaxShort}

GivenArrays ==
    ShortArrays \cup {BubbleScenario, SelectionScenario, InsertionScenario}

StartGiven ==
    /\ CanStart
    /\ \E kind \in Kinds, arr \in GivenArrays, order \in Orders, conv \in Convergences :
         StartWith(kind, arr, order, conv)

GivenHandleAction == decisions < MaxDecisions /\ PromptHandleAction

NextGiven ==
    \/ StartGiven
    \/ GivenHandleAction
    \/ PromptHandlePick
    \/ PromptHandleInsert
    \/ PromptHandleSelection
    \/ TimerFires

SpecGiven == Init /\ [][NextGiven]_vars

\* C11: an engine started on a sequence of length 1 is complete without any
\* accepted decision, one started on a sequence of length 2 is complete after
\* exactly one accepted decision (and not before), whatever the engine and
\* the convergence; no index outside the sequence is addressed and the length
\* of the sequence does not change.
C11_ShortSequences ==
    (Started /\ Len(initialArray) <= 2) =>
        /\ Len(initialArray) = 1 => (game.isComplete /\ decisions = 0)
        /\ Len(initialArray) = 2 =>
              /\ decisions <= 1
              /\ game.isComplete => decisions = 1
              /\ (decisions = 1 /\ timers = <<>>) => game.isComplete
        /\ \A k \in lastEvent.accessed : InRange(initialArray, k)
        /\ Len(game.array) = Len(initialArray)
        /\ game.props = {}

\* The part of C11 the code keeps: sequences of length 2 under every engine,
\* sequences of length 1 under the insertion and the selection engine.
C11_ShortSequencesKept ==
    (Started /\ (Len(initialArray) = 2 \/ game.kind # "bubble")) => C11_ShortSequences

\* The worked scenarios: the engine, the settings and the given sequence.
InScenario(kind, arr, order, conv) ==
    /\ game.kind = kind
    /\ initialArray = arr
    /\ game.sortOrder = order
    /\ game.convergence = conv

\* The actions handleAction accepts on the active pair.
AcceptedActions == {action \in {"swap", "next"} : correct(game, action)}

\* C15: bubble, ascending, right convergence, on [5,3,4]: only 'swap' is
\* accepted at (5,3), giving [3,5,4]; only 'swap' at (5,4), giving [3,4,5]
\* with the first pass over (index 2 settled); only the no-swap action at
\* (3,4); the engine is then complete with [3,4,5], after exactly three
\* accepted decisions.
C15_BubbleScenario ==
    InScenario("bubble", BubbleScenario, "asc", "right") =>
        /\ decisions <= 3
        /\ game.isComplete <=> (decisions = 3 /\ timers = <<>>)
        /\ decisions = 0 =>
              /\ game.array = <<5, 3, 4>> /\ game.i = 0 /\ game.j = 0
              /\ AcceptedActions = {"swap"}
        /\ decisions = 1 =>
              /\ game.array = <<3, 5, 4>> /\ game.i = 0
              /\ timers = <<>> => (game.j = 1 /\ AcceptedActions = {"swap"})
        /\ decisions = 2 =>
              /\ game.array = <<3, 4, 5>>
              /\ timers = <<>> =>
                    (game.i = 1 /\ game.j = 0 /\ AcceptedActions = {"next"})
        /\ decisions = 3 => game.array = <<3, 4, 5>>

C15_Witness ==
    /\ InScenario("bubble", BubbleScenario, "asc", "right")
    /\ game.isComplete
    /\ decisions = 3
    /\ game.array = <<3, 4, 5>>

\* The cards handleSelection accepts among those on offer.
AcceptedSelections == {index \in ui.clickable : selectionAccepted(game, index)}

\* C16: selection, ascending, left convergence, on [4,1,3]: with sortedIndex 0
\* only index 1 is accepted, giving [1,4,3]; with sortedIndex 1 only index 2,
\* giving [1,3,4]; the engine is complete after exactly two accepted
\* selections.
C16_SelectionScenario ==
    InScenario("selection", SelectionScenario, "asc", "left") =>
        /\ decisions <= 2
        /\ game.isComplete <=> (decisions = 2 /\ timers = <<>>)
        /\ (decisions = 0 /\ timers = <<>>) =>
              /\ game.array = <<4, 1, 3>> /\ game.sortedIndex = 0
              /\ ui.clickable = 0 .. 2
              /\ AcceptedSelections = {1}
        /\ (decisions = 1 /\ timers = <<>>) =>
              /\ game.array = <<1, 4, 3>> /\ game.sortedIndex = 1
              /\ ui.clickable = 1 .. 2
              /\ AcceptedSelections = {2}
        /\ (decisions = 2 /\ timers = <<>>) => game.array = <<1, 3, 4>>

C16_Witness ==
    /\ InScenario("selection", SelectionScenario, "asc", "left")
    /\ game.isComplete
    /\ decisions = 2
    /\ game.array = <<1, 3, 4>>

\* The slots handleInsert accepts among those on offer.
AcceptedSlots == {slotIndex \in ui.slots : slotIndex = correctSlot(game)}

\* C17: insertion, ascending, left convergence, on [3,1,2]: index 1 is
\* picked and only slot 0 is accepted, giving [1,3,2]; index 2 is picked and
\* only slot 1 is accepted, giving [1,2,3]; the engine is complete after
\* exactly two accepted placements.
C17_InsertionScenario ==
    InScenario("insertion", InsertionScenario, "asc", "left") =>
        /\ decisions <= 2
        /\ game.isComplete <=> (decisions = 2 /\ timers = <<>>)
        /\ (decisions = 0 /\ timers = <<>>) =>
              /\ game.array = <<3, 1, 2>>
              /\ \/ ui.pick = {1} /\ ui.slots = {}
                 \/ /\ ui.pick = {} /\ ui.slots = 0 .. 1
                    /\ game.currentIndex = 1 /\ game.currentVal = 1
                    /\ AcceptedSlots = {0}
        /\ (decisions = 1 /\ timers = <<>>) =>
              /\ game.array = <<1, 3, 2>>
              /\ \/ ui.pick = {2} /\ ui.slots = {}
                 \/ /\ ui.pick = {} /\ ui.slots = 0 .. 2
                    /\ game.currentIndex = 2 /\ game.currentVal = 2
                    /\ AcceptedSlots = {1}
        /\ (decisions = 2 /\ timers = <<>>) => game.array = <<1, 2, 3>>

C17_Witness ==
    /\ InScenario("insertion", InsertionScenario, "asc", "left")
    /\ game.isComplete
    /\ decisions = 2
    /\ game.array = <<1, 2, 3>>

(***************************************************************************)
(* SpecReset: the learner submits one action per prompt and may click the  *)
(* reset button at any time, also while a callback is pending.             *)
(***************************************************************************)
NextReset ==
    \/ StartGame
    \/ ResetGame
    \/ PromptHandleAction
    \/ PromptHandlePick
    \/ PromptHandleInsert
    \/ PromptHandleSelection
    \/ TimerFires

SpecReset == Init /\ [][NextReset]_vars

\* The number of pairs of the passes before pass i.
RECURSIVE PairsBefore(_, _)
PairsBefore(n, i) == IF i <= 0 THEN 0 ELSE (n - i) + PairsBefore(n, i - 1)

\* How many times the bubble cursor has advanced since init, read off i and j.
StepsDone(g) ==
    PairsBefore(Len(g.array), g.i) +
    (IF g.convergence = "right" THEN g.j ELSE Len(g.array) - 1 - g.j)

\* C12: resetGame while a bubble nextStep is pending discards the pending
\* step: in every session the cursor and the pass counter advance only for
\* actions accepted in that session (so the first pair of the new session is
\* not skipped), and a complete session holds an ordered sequence.
C12_ResetDiscardsStep ==
    game.kind = "bubble" =>
        /\ StepsDone(game) <= decisions
        /\ game.isComplete => Ordered

\* The number of positions the selection engine has settled since init.
SettledCount(g) ==
    IF g.convergence = "left" THEN g.sortedIndex
    ELSE Len(g.array) - 1 - g.sortedIndex

\* C13: resetGame while a selection swap is pending leaves the stale callback
\* without effect on the new session: the new sequence stays as generated
\* until a selection of the new session is accepted, sortedIndex advances
\* only for accepted selections of the session, the length of the sequence
\* does not change and no index outside it is written.
C13_ResetDiscardsSwap ==
    game.kind = "selection" =>
        /\ SettledCount(game) <= decisions
        /\ decisions = 0 => game.array = initialArray
        /\ Len(game.array) = Len(initialArray)
        /\ game.props = {}
        /\ \A k \in lastEvent.accessed : InRange(game.array, k)

(***************************************************************************)
(* SpecReplace: the learner submits one action per prompt, may leave a     *)
(* bubble game for the menu at any time, also while its nextStep is        *)
(* pending, and may start another game from the menu.                      *)
(***************************************************************************)
LeaveBubble == game.kind = "bubble" /\ BackToMenu

NextReplace ==
    \/ StartGame
    \/ LeaveBubble
    \/ OrphanNextStep
    \/ PromptHandleAction
    \/ PromptHandlePick
    \/ PromptHandleInsert
    \/ PromptHandleSelection
    \/ TimerFires

SpecReplace == Init /\ [][NextReplace]_vars

\* C14: a callback of the engine startGame replaced (or backToMenu left)
\* never changes the new engine's sequence or progress indices, never removes
\* the new engine's action controls, and never announces completion while the
\* new engine is not complete.
C14_ReplacedEngineHarmless ==
    /\ (game.kind # "none" /\ decisions = 0) =>
          LET g0 == initGame(game.kind, initialArray, game.sortOrder, game.convergence)
          IN  /\ game.array = g0.array
              /\ game.i = g0.i /\ game.j = g0.j
              /\ game.boundary = g0.boundary
              /\ game.sortedIndex = g0.sortedIndex
    /\ (game.kind = "bubble" /\ ~game.isComplete) => ui.controls
    /\ (ui.instruction.type = "success" /\ ui.instruction.text = "complete") =>
          game.isComplete

\* The first part of C14, which the code keeps: the replaced engine's callback
\* leaves the new engine's fields alone.
C14_NewEngineUntouched ==
    [][lastEvent'.op = "previous.nextStep" => game' = game]_vars

(***************************************************************************)
(* SpecPure: the pure functions of SortGame, each called once, on every    *)
(* input of a bounded set; lastEvent records the call and its result.      *)
(***************************************************************************)
\* shouldPrecede is tried on the integers -MaxInt .. MaxInt.
MaxInt == 4
\* The size input is tried on the integers -SizeMargin .. 20 + SizeMargin.
SizeMargin == 3
\* Math.random() is tried on the values m / RandomSteps, m in 0 .. RandomSteps - 1.
RandomSteps == 200

TestInts == (0 - MaxInt) .. MaxInt

TestSizeInputs ==
    {[nan |-> TRUE, n |-> 0]} \cup
    {[nan |-> FALSE, n |-> k] : k \in (0 - SizeMargin) .. (MaxLength + SizeMargin)}

\* Math.floor(Math.random() * 99) + 1 with Math.random() = m / RandomSteps
RandomValue(m) == ((m * 99) \div RandomSteps) + 1

\* An engine with the given sort order.
WithOrder(order) == [NewGame("bubble") EXCEPT !.sortOrder = order]

CallShouldPrecede ==
    /\ lastEvent.op = "none"
    /\ \E order \in Orders, a \in TestInts, b \in TestInts :
         lastEvent' = [op |-> "shouldPrecede", order |-> order, a |-> a, b |-> b,
                       result |-> shouldPrecede(WithOrder(order), a, b)]
    /\ UNCHANGED <<game, timers, ui, initialArray, currentView, previous,
                   sessions, decisions>>

\* The k-th result of Math.random() in a run that starts at seed / RandomSteps:
\* the runs tried step through the values m / RandomSteps.
RandomDraw(seed, k) == (seed + 37 * (k - 1)) % RandomSteps

\* Array.from({ length: size }, () => Math.floor(Math.random() * 99) + 1)
generateRandomArray(size, seed) ==
    [k \in 1 .. size |-> RandomValue(RandomDraw(seed, k))]

\* SortGame.init up to the generation of the array: the size read from the
\* page, validated, and the array generated.
CallGenerate ==
    /\ lastEvent.op = "none"
    /\ \E input \in TestSizeInputs, seed \in 0 .. (RandomSteps - 1) :
         lastEvent' = [op |-> "generate", input |-> input, seed |-> seed,
                       array |-> generateRandomArray(ClampSize(input), seed)]
    /\ UNCHANGED <<game, timers, ui, initialArray, currentView, previous,
                   sessions, decisions>>

NextPure ==
    \/ CallShouldPrecede
    \/ CallGenerate

SpecPure == Init /\ [][NextPure]_vars

\* C18: shouldPrecede(a, b) is a < b under ascending order and a > b under
\* descending order; it is irreflexive and asymmetric, and the descending
\* relation is the ascending one with its arguments exchanged.
C18_ShouldPrecede ==
    lastEvent.op = "shouldPrecede" =>
        LET a == lastEvent.a
            b == lastEvent.b
            r == lastEvent.result
        IN  /\ lastEvent.order = "asc" => (r <=> a < b)
            /\ lastEvent.order = "desc" => (r <=> a > b)
            /\ a = b => ~r
            /\ r => ~shouldPrecede(WithOrder(lastEvent.order), b, a)
            /\ shouldPrecede(WithOrder("desc"), a, b) =
                   shouldPrecede(WithOrder("asc"), b, a)

C18_Witness ==
    /\ lastEvent.op = "shouldPrecede"
    /\ lastEvent.order = "desc"
    /\ lastEvent.a > lastEvent.b
    /\ lastEvent.result

\* C19: SortGame.init creates a sequence of the requested size when that size
\* is in [5, 20], of size 5 when it is below 5 or not numeric, of size 20 when
\* it is above 20; every value generated is an integer in [1, 99].
C19_SizeAndValues ==
    lastEvent.op = "generate" =>
        LET n == lastEvent.input.n
            nan == lastEvent.input.nan
            arr == lastEvent.array
        IN  /\ (~nan /\ n >= 5 /\ n <= 20) => Len(arr) = n
            /\ (nan \/ n < 5) => Len(arr) = 5
            /\ (~nan /\ n > 20) => Len(arr) = 20
            /\ \A k \in 1 .. Len(arr) : arr[k] \in 1 .. 99

C19_Witness ==
    /\ lastEvent.op = "generate"
    /\ ~lastEvent.input.nan
    /\ lastEvent.input.n > 20
    /\ Len(lastEvent.array) = 20
    /\ \E k \in 1 .. 20 : lastEvent.array[k] = 99

\* C20: the bubble engine advances its cursor once per prompt: an action
\* submitted after an accepted action and before its nextStep has run is not
\* accepted, so at most one nextStep is pending, every cursor advance answers
\* exactly one accepted decision, and no pair is skipped.
C20_OneAdvancePerPrompt ==
    game.kind = "bubble" =>
        /\ Len(timers) <= 1
        /\ decisions = StepsDone(game) + Len(timers)

(***************************************************************************)
(* The bubble cursor, one action per prompt.                               *)
(***************************************************************************)
BubbleOf(conv) == game.kind = "bubble" /\ game.convergence = conv

\* length * (length - 1) / 2
AllPairs(n) == (n * (n - 1)) \div 2

\* The cursor of a bubble game under right convergence: the active pair
\* (j, j + 1) lies in 0 .. length - 2 - i, the game is complete exactly when
\* i is length - 1, and the accepted decisions count the pairs visited.
C21_Cursor ==
    BubbleOf("right") =>
        LET n == Len(game.array)
        IN  /\ game.isComplete <=> game.i = n - 1
            /\ ~game.isComplete =>
                   /\ game.i \in 0 .. (n - 2)
                   /\ game.j \in 0 .. (n - 2 - game.i)
                   /\ idx1(game) = game.j /\ idx2(game) = game.j + 1
            /\ decisions = StepsDone(game) + Len(timers)
            /\ game.isComplete => decisions = AllPairs(n)

\* One step of a bubble game under right convergence: an action addresses
\* the pair (j, j + 1); nextStep moves j by one, and from the last pair of
\* pass i resets j to 0 and moves i by one.
C21_Step ==
    BubbleOf("right") =>
        /\ lastEvent'.op = "handleAction" =>
               lastEvent'.accessed = {game.j, game.j + 1}
        /\ lastEvent'.op = "nextStep" =>
               IF game.j = Len(game.array) - 2 - game.i
               THEN game'.j = 0 /\ game'.i = game.i + 1
               ELSE game'.j = game.j + 1 /\ game'.i = game.i

\* C21: with one action per prompt, bubble under right convergence visits in
\* pass i the pairs (0,1) .. (length-2-i, length-1-i) in order, then resets
\* j to 0 and increments i; it is complete exactly when i reaches length - 1,
\* after exactly length * (length - 1) / 2 accepted decisions, with no early
\* exit on a sequence that is already ordered.
C21_BubbleRight == []C21_Cursor /\ [][C21_Step]_vars

\* A complete right-convergence game that started from an ordered sequence.
C21_Witness ==
    /\ BubbleOf("right")
    /\ game.isComplete
    /\ OrderedUnder(game, initialArray)
    /\ decisions = AllPairs(Len(game.array))

\* The cursor of a bubble game under left convergence: the active pair is
\* (j - 1, j) with i + 1 <= j <= length - 1, so its lower index is not below
\* i; the game is complete exactly when i is length - 1.
C22_Cursor ==
    BubbleOf("left") =>
        LET n == Len(game.array)
        IN  /\ game.isComplete <=> game.i = n - 1
            /\ ~game.isComplete =>
                   /\ game.i \in 0 .. (n - 2)
                   /\ game.j \in (game.i + 1) .. (n - 1)
                   /\ idx1(game) = game.j - 1 /\ idx2(game) = game.j
                   /\ idx1(game) >= game.i
            /\ decisions = StepsDone(game) + Len(timers)
            /\ (decisions = 0 /\ ~game.isComplete) =>
                   idx1(game) = n - 2 /\ idx2(game) = n - 1

\* One step of a bubble game under left convergence: an action addresses
\* the pair (j - 1, j), never an index below i; nextStep moves j down by
\* one, and from j = i + 1 resets j to length - 1 and moves i by one.
C22_Step ==
    BubbleOf("left") =>
        /\ lastEvent'.op = "handleAction" =>
               /\ lastEvent'.accessed = {game.j - 1, game.j}
               /\ \A k \in 0 .. (Len(game.array) - 1) :
                      k < game.i => At(game'.array, k) = At(game.array, k)
        /\ lastEvent'.op = "nextStep" =>
               IF game.j = game.i + 1
               THEN game'.j = Len(game.array) - 1 /\ game'.i = game.i + 1
               ELSE game'.j = game.j - 1 /\ game'.i = game.i

\* C22: with one action per prompt, bubble under left convergence starts at
\* the pair (length-2, length-1) and visits in pass i the pairs (j-1, j) for
\* j from length-1 down to i+1; then i is incremented and j reset to
\* length-1.  At every prompt j - 1 >= i, so no settled index below i is
\* compared or swapped, and the game is complete exactly when i reaches
\* length - 1.
C22_BubbleLeft == []C22_Cursor /\ [][C22_Step]_vars

\* A left-convergence game in a later pass at its last pair (i, i + 1), with
\* a swap just accepted there.
C22_Witness ==
    /\ BubbleOf("left")
    /\ game.i >= 1
    /\ game.j = game.i + 1
    /\ lastEvent.op = "handleAction"
    /\ lastEvent.action = "swap"
    /\ lastEvent.accepted

(***************************************************************************)
(* Frame effects of accepted and rejected actions.                         *)
(***************************************************************************)
\* The step is a call of `op` that was accepted / rejected.
AcceptedCall(op) == lastEvent'.op = op /\ lastEvent'.accepted
RejectedCall(op) == lastEvent'.op = op /\ ~lastEvent'.accepted

\* The values of arr at the 0-based indices lo .. hi, in order.
Slice(arr, lo, hi) == [k \in 1 .. (hi - lo + 1) |-> At(arr, lo + k - 1)]

\* The values of the settled region of an insertion game, in order.
SettledValues(g) == Slice(g.array, rangeStart(g), rangeEnd(g))

\* The index the picked value ends at: the slot index, reduced by one when
\* the slot is beyond the index the value was picked from.
C23_Target(slotIndex, from) == IF slotIndex > from THEN slotIndex - 1 ELSE slotIndex

\* C23: an accepted placement removes the picked value from its index and
\* reinserts it at the slot index (reduced by one when the slot index is
\* beyond the original index); the boundary moves by exactly one (+1 left,
\* -1 right); the settled region grows by exactly the picked value; every
\* other unsettled element keeps its index and value.
C23_Placement ==
    [][(game.kind = "insertion" /\ AcceptedCall("handleInsert")) =>
          LET from == game.currentIndex
              to == C23_Target(lastEvent'.index, from)
              val == At(game.array, from)
          IN  /\ Len(game'.array) = Len(game.array)
              /\ At(game'.array, to) = val
              /\ game'.boundary = IF game.convergence = "left"
                                  THEN game.boundary + 1 ELSE game.boundary - 1
              /\ to \in SettledRegion(game')
              /\ Cardinality(SettledRegion(game')) =
                     Cardinality(SettledRegion(game)) + 1
              /\ RemoveAt(SettledValues(game'), to - rangeStart(game')) =
                     SettledValues(game)
              /\ \A k \in 0 .. (Len(game.array) - 1) :
                     k \notin SettledRegion(game') =>
                         At(game'.array, k) = At(game.array, k)
              /\ game'.convergence = game.convergence
              /\ game'.isComplete = game.isComplete]_vars

\* An accepted placement under right convergence that moved the picked value
\* to another index.
C23_Witness ==
    /\ game.kind = "insertion"
    /\ game.convergence = "right"
    /\ lastEvent.op = "handleInsert"
    /\ lastEvent.accepted
    /\ lastEvent.index > game.currentIndex + 1
    /\ At(game.array, game.currentIndex) # game.currentVal

\* array and sortedIndex are what they were.
SelectionKept == game'.array = game.array /\ game'.sortedIndex = game.sortedIndex

\* C24: an accepted selection of idx exchanges array[idx] and
\* array[sortedIndex] (in its delayed callback), leaves every other position
\* unchanged and moves sortedIndex by one step; when idx = sortedIndex the
\* sequence is unchanged and sortedIndex still advances.  A rejected
\* selection changes neither the sequence nor sortedIndex, and the target
\* phase is re-entered with the same eligible range.
C24_Selection ==
    [][game.kind = "selection" =>
          /\ lastEvent'.op = "handleSelection" => SelectionKept
          /\ AcceptedCall("handleSelection") =>
                 /\ timers' = Append(timers, Timer("swap", lastEvent'.index))
                 /\ ui'.clickable = {}
          /\ lastEvent'.op = "swap" =>
                 LET idx == lastEvent'.index
                 IN  /\ At(game'.array, idx) = At(game.array, game.sortedIndex)
                     /\ At(game'.array, game.sortedIndex) = At(game.array, idx)
                     /\ \A k \in 0 .. (Len(game.array) - 1) :
                            k \notin {idx, game.sortedIndex} =>
                                At(game'.array, k) = At(game.array, k)
                     /\ Len(game'.array) = Len(game.array)
                     /\ game'.sortedIndex = IF game.convergence = "left"
                                            THEN game.sortedIndex + 1
                                            ELSE game.sortedIndex - 1
                     /\ idx = game.sortedIndex => game'.array = game.array
          /\ RejectedCall("handleSelection") =>
                 /\ timers' = Append(timers, Timer("reprompt", lastEvent'.index))
                 /\ lastEvent'.index \in ui.clickable
                 /\ ui.clickable = scanStart(game) .. scanEnd(game)
          /\ lastEvent'.op = "reprompt" =>
                 /\ SelectionKept
                 /\ ~game'.isComplete
                 /\ ui'.clickable = scanStart(game) .. scanEnd(game)
                 /\ lastEvent'.index \in ui'.clickable]_vars

\* The card already at sortedIndex was selected and accepted in a game whose
\* earlier selections moved cards, and sortedIndex has advanced past it.
C24_Witness ==
    /\ game.kind = "selection"
    /\ game.convergence = "left"
    /\ lastEvent.op = "swap"
    /\ lastEvent.index = game.sortedIndex - 1
    /\ game.sortedIndex >= 2
    /\ game.array # initialArray

\* C25: an accepted bubble 'swap' exchanges exactly the two values of the
\* active pair and leaves the rest of the sequence unchanged; an accepted
\* no-swap action leaves the whole sequence unchanged; i and j are unchanged
\* until the delayed nextStep runs, which then advances the cursor by exactly
\* one pair.  (When a nextStep runs, no other accepted action is still waiting
\* for its own nextStep: otherwise the cursor would move under that action.)
C25_BubbleAction ==
    [][game.kind = "bubble" =>
          /\ (AcceptedCall("handleAction") /\ lastEvent'.action = "swap") =>
                 /\ At(game'.array, idx1(game)) = At(game.array, idx2(game))
                 /\ At(game'.array, idx2(game)) = At(game.array, idx1(game))
                 /\ At(game.array, idx1(game)) # At(game.array, idx2(game))
                 /\ \A k \in 0 .. (Len(game.array) - 1) :
                        k \notin {idx1(game), idx2(game)} =>
                            At(game'.array, k) = At(game.array, k)
                 /\ Len(game'.array) = Len(game.array)
          /\ (AcceptedCall("handleAction") /\ lastEvent'.action # "swap") =>
                 game'.array = game.array
          /\ AcceptedCall("handleAction") =>
                 /\ game'.i = game.i /\ game'.j = game.j
                 /\ ~game'.isComplete
                 /\ timers' = Append(timers, Timer("nextStep", Undefined))
          /\ lastEvent'.op = "nextStep" =>
                 /\ game'.array = game.array
                 /\ StepsDone(game') = StepsDone(game) + 1
                 /\ timers' = <<>>]_vars

(***************************************************************************)
(* The sequence within one session.                                        *)
(***************************************************************************)
\* How many elements of arr are v.
Occurrences(arr, v) == Cardinality({k \in 1 .. Len(arr) : arr[k] = v})

\* Same length and same multiset of values.
IsPermutation(a, b) ==
    /\ Len(a) = Len(b)
    /\ \A k \in 1 .. Len(a) : Occurrences(a, a[k]) = Occurrences(b, a[k])

\* C26: within one session of any engine, after any sequence of accepted and
\* rejected learner actions, the sequence is a permutation of the session's
\* initial sequence and its length is unchanged; the insertion engine's
\* remove-and-reinsert never loses or duplicates a value.
C26_Permutation ==
    Started =>
        /\ IsPermutation(game.array, initialArray)
        /\ game.props = {}

\* A complete insertion game on a sequence with a repeated value, whose
\* placements moved values.
C26_Witness ==
    /\ Complete
    /\ game.kind = "insertion"
    /\ game.array # initialArray
    /\ HasDuplicates(initialArray)
    /\ \E a, b \in 1 .. Len(initialArray) : initialArray[a] # initialArray[b]

(***************************************************************************)
(* Settled regions of the bubble and selection engines.                    *)
(***************************************************************************)
\* The settled region: bubble, the last i indices (right) or the first i
\* (left); selection, the indices below (left) or above (right) sortedIndex.
FinalRegion(g) ==
    LET n == Len(g.array)
    IN  IF g.kind = "bubble"
        THEN (IF g.convergence = "right" THEN (n - g.i) .. (n - 1)
              ELSE 0 .. (g.i - 1))
        ELSE (IF g.convergence = "left" THEN 0 .. (g.sortedIndex - 1)
              ELSE (g.sortedIndex + 1) .. (n - 1))

\* Is the settled region at the low end of the sequence?
LowEnd(g) == g.convergence = "left"

\* The settled region is ordered and no unsettled value belongs strictly
\* inside it.
FinalValues(g) ==
    LET R == FinalRegion(g)
        U == (0 .. (Len(g.array) - 1)) \ R
    IN  /\ \A k \in R : (k + 1) \in R =>
               \/ shouldPrecede(g, At(g.array, k), At(g.array, k + 1))
               \/ At(g.array, k) = At(g.array, k + 1)
        /\ \A s \in R : \A u \in U :
               IF LowEnd(g)
               THEN ~shouldPrecede(g, At(g.array, u), At(g.array, s))
               ELSE ~shouldPrecede(g, At(g.array, s), At(g.array, u))

BubbleOrSelection == game.kind \in {"bubble", "selection"}

C27_Region == (BubbleOrSelection /\ AtPrompt) => FinalValues(game)

\* No step of a session changes the value at a settled position.
C27_Frozen ==
    (BubbleOrSelection /\ lastEvent'.op # "init") =>
        \A k \in FinalRegion(game) : At(game'.array, k) = At(game.array, k)

\* C27: with one action per prompt, at every prompt the settled region of the
\* bubble engine (last i indices right, first i left) and of the selection
\* engine (below sortedIndex left, above sortedIndex right) is ordered under
\* the sort order and no unsettled value belongs strictly inside it; later
\* accepted actions never change a settled position.
C27_SettledFinal == []C27_Region /\ [][C27_Frozen]_vars

\* A bubble prompt with two settled indices while the rest of the sequence is
\* not yet ordered and a swap has been made.
C27_Witness ==
    /\ game.kind = "bubble"
    /\ AtPrompt
    /\ ~game.isComplete
    /\ game.i >= 2
    /\ ~Ordered
    /\ game.array # initialArray

(***************************************************************************)
(* The insertion engine.                                                   *)
(***************************************************************************)
Insertion == game.kind = "insertion"

\* The page shows a pick prompt / a placement prompt.
PickPrompt == Insertion /\ ui.pick # {}
PlacementPrompt == Insertion /\ ui.slots # {}

\* C28: the settled region of the insertion engine ([0..boundary] left,
\* [boundary..length-1] right) is at every pick and placement prompt, under
\* both convergence directions, a contiguous range inside the sequence that
\* contains exactly 1 + (accepted placements) elements, with every adjacent
\* pair x, y satisfying shouldPrecede(x, y) or x = y.
C28_SettledOrdered ==
    Insertion =>
        LET R == SettledRegion(game)
        IN  /\ R = rangeStart(game) .. rangeEnd(game)
            /\ R \subseteq 0 .. (Len(game.array) - 1)
            /\ IF game.convergence = "left" THEN 0 \in R
               ELSE (Len(game.array) - 1) \in R
            /\ Cardinality(R) = 1 + decisions
            /\ \A k \in R : (k + 1) \in R =>
                   \/ shouldPrecede(game, At(game.array, k), At(game.array, k + 1))
                   \/ At(game.array, k) = At(game.array, k + 1)

\* A placement prompt under right convergence with three settled elements,
\* two of them different.
C28_Witness ==
    /\ PlacementPrompt
    /\ game.convergence = "right"
    /\ decisions = 2
    /\ At(game.array, game.boundary) # At(game.array, Len(game.array) - 1)
    /\ game.array # initialArray

\* The phase of an insertion game as the page shows it: at most one of a
\* pick target and a set of slots is offered, and neither while a promptPick
\* is pending.
C29_Phases ==
    Insertion =>
        /\ ui.pick \subseteq {pickIndex(game)}
        /\ ui.clickable = {}
        /\ ~(ui.pick # {} /\ ui.slots # {})
        /\ timers # <<>> => (ui.pick = {} /\ ui.slots = {} /\ Len(timers) = 1)
        /\ game.isComplete => (ui.pick = {} /\ ui.slots = {})
        /\ PlacementPrompt =>
               /\ ui.slots = showSlots(game)
               /\ game.currentIndex = pickIndex(game)
               /\ game.currentVal = At(game.array, game.currentIndex)

\* The steps of an insertion game: slots appear only by a pick, a placement
\* is validated against the value of that pick, an accepted placement ends
\* the placement phase until promptPick has run, and a rejected placement
\* keeps the phase, the picked value and the slots.
C29_Step ==
    Insertion =>
        /\ (ui.slots = {} /\ ui'.slots # {}) =>
               /\ AcceptedCall("handlePick")
               /\ ui.pick = {lastEvent'.index}
               /\ game'.currentVal = At(game.array, lastEvent'.index)
        /\ (ui.pick = {} /\ ui'.pick # {}) =>
               lastEvent'.op \in {"init", "promptPick"}
        /\ lastEvent'.op = "handleInsert" =>
               /\ PlacementPrompt
               /\ lastEvent'.accepted <=>
                      lastEvent'.index = correctSlotFrom(
                          [game EXCEPT !.currentVal =
                                           At(game.array, pickIndex(game))],
                          rangeStart(game))
        /\ AcceptedCall("handleInsert") =>
               /\ ui'.slots = {} /\ ui'.pick = {}
               /\ timers = <<>>
               /\ timers' = <<Timer("promptPick", Undefined)>>
        /\ RejectedCall("handleInsert") =>
               /\ game' = game
               /\ ui'.slots = ui.slots /\ ui'.pick = {}
               /\ timers' = timers

\* C29: the insertion phases alternate strictly.  The pick phase offers only
\* boundary+1 (left) or boundary-1 (right); a placement is possible only
\* after a pick and is validated against the value picked in that step;
\* after an accepted placement no slot and no pick target is offered until
\* the delayed promptPick runs, so no second placement is accepted for one
\* pick; after a rejected placement the engine stays in the placement phase
\* with the same picked value and the same slots.
C29_PhasesAlternate == []C29_Phases /\ [][C29_Step]_vars

\* A placement was rejected and the placement prompt is still open, in a
\* game that has already been through an accepted placement.
C29_Witness ==
    /\ PlacementPrompt
    /\ lastEvent.op = "handleInsert"
    /\ ~lastEvent.accepted
    /\ decisions >= 1

(***************************************************************************)
(* SpecFair: one action per prompt, every pending callback eventually      *)
(* fires (setTimeout), and the learner, whatever they submit in between,   *)
(* eventually submits an action that is accepted whenever prompts keep     *)
(* being offered.                                                          *)
(***************************************************************************)
\* A learner action that the engine accepts.
CorrectAction ==
    /\ \/ PromptHandleAction
       \/ PromptHandlePick
       \/ PromptHandleInsert
       \/ PromptHandleSelection
    /\ lastEvent'.accepted

\* `let size = 5`: the size SortGame.init uses when the size input holds no
\* number.
DefaultSize == 5

\* startGame with the size input left empty.
StartDefault ==
    /\ CanStart
    /\ \E kind \in Kinds, order \in Orders, conv \in Convergences :
         \E arr \in ArraysOf(DefaultSize) :
             StartWith(kind, arr, order, conv)

NextFair ==
    \/ StartDefault
    \/ PromptHandleAction
    \/ PromptHandlePick
    \/ PromptHandleInsert
    \/ PromptHandleSelection
    \/ TimerFires

SpecFair ==
    /\ Init
    /\ [][NextFair]_vars
    /\ WF_vars(TimerFires)
    /\ SF_vars(CorrectAction)

\* The accepted actions a complete session takes.
Required(g) ==
    IF g.kind = "bubble" THEN AllPairs(Len(g.array)) ELSE Len(g.array) - 1

\* A prompt is offered among whose offered actions at least one is accepted.
Offered ==
    /\ Started
    /\ AtPrompt
    /\ ~game.isComplete
    /\ IF game.kind = "bubble" THEN ui.controls /\ AcceptedActions # {}
       ELSE IF game.kind = "insertion"
            THEN ui.pick # {} \/ AcceptedSlots # {}
            ELSE AcceptedSelections # {}

WorkRemains == Started /\ decisions < Required(game)

\* The first sentence of C30 as it is written: from every state whose
\* isComplete is false a prompt with an accepted action is eventually offered.
C30_PromptFromEveryState == (Started /\ ~game.isComplete) ~> Offered

\* C30: progress without deadlock.  From every state in which accepted
\* actions are still due, after any number of rejected actions, a prompt is
\* eventually offered among whose actions at least one is accepted; from a
\* state whose isComplete is false such a prompt is offered or the engine
\* completes; a learner who eventually submits a correct action at every
\* prompt reaches isComplete after exactly length*(length-1)/2 accepted
\* actions (bubble) or length-1 (insertion, selection), pending timers
\* eventually firing.
C30_Progress ==
    /\ WorkRemains ~> Offered
    /\ Started ~> Complete
    /\ [](Started => decisions <= Required(game))
    /\ [](Complete => decisions = Required(game))

\* The last prompt of a selection game, offered again after a rejected
\* selection.
C30_Witness ==
    /\ game.kind = "selection"
    /\ lastEvent.op = "reprompt"
    /\ Offered
    /\ decisions = Required(game) - 1

(***************************************************************************)
(* The selection engine while a step is in flight.                         *)
(***************************************************************************)
Selection == game.kind = "selection"

\* The swap callbacks that are pending.
PendingSwaps == {p \in 1 .. Len(timers) : timers[p].fn = "swap"}

\* C31: the selection engine accepts no selection while a step is in flight.
\* From the entry of handleSelection (accepted or rejected) until the delayed
\* promptFindTarget runs no index is eligible, so at most one callback is
\* pending, between two target prompts at most one swap and one sortedIndex
\* step occur (sortedIndex has made one step per accepted selection whose
\* swap has run), and every accepted selection is validated against the
\* sequence as it is after the previous swap (none is pending when it is
\* accepted).
C31_NoSelectionInFlight ==
    Selection =>
        /\ timers # <<>> => (ui.clickable = {} /\ Len(timers) = 1)
        /\ ui.clickable # {} => ui.clickable = scanStart(game) .. scanEnd(game)
        /\ SettledCount(game) = decisions - Cardinality(PendingSwaps)
        /\ lastEvent.op = "handleSelection" =>
               /\ timers = <<Timer(IF lastEvent.accepted THEN "swap" ELSE "reprompt",
                                   lastEvent.index)>>
               /\ lastEvent.accepted <=> selectionAccepted(game, lastEvent.index)
        /\ lastEvent.op = "swap" =>
               timers = <<Timer("promptFindTarget", Undefined)>>

\* The swap of the second accepted selection has run and its prompt is
\* still pending.
C31_Witness ==
    /\ Selection
    /\ lastEvent.op = "swap"
    /\ timers # <<>>
    /\ decisions = 2
    /\ game.array # initialArray

(***************************************************************************)
(* SpecRestart: insertion games of the default size in which the learner   *)
(* may click whatever the page offers at any time and may press the reset  *)
(* button while a promptPick is pending.                                   *)
(***************************************************************************)
\* startGame('insertion') with the size input left empty.
StartInsertion ==
    /\ CanStart
    /\ \E order \in Orders, conv \in Convergences :
         \E arr \in ArraysOf(DefaultSize) :
             StartWith("insertion", arr, order, conv)

\* resetGame while a callback is pending, the page's inputs untouched: init
\* reads back the size it wrote to the size input and the same two selects,
\* and generates a new sequence.
ResetInFlight ==
    /\ currentView = "game"
    /\ game.kind # "none"
    /\ sessions < MaxSessions
    /\ timers # <<>>
    /\ \E arr \in ArraysOf(Len(game.array)) :
         /\ game' = initOn(game, arr, game.sortOrder, game.convergence)
         /\ ui' = initUi(game.kind, arr, game.sortOrder, game.convergence, ui)
         /\ initialArray' = arr
    /\ lastEvent' = Event("init", "", Undefined, TRUE, {})
    /\ sessions' = sessions + 1
    /\ decisions' = 0
    /\ UNCHANGED <<timers, currentView, previous>>

NextRestart ==
    \/ StartInsertion
    \/ ResetInFlight
    \/ HandlePick
    \/ HandleInsert
    \/ FirePromptPick

SpecRestart == Init /\ [][NextRestart]_vars

\* What the session looks like whatever callbacks of earlier sessions ran:
\* the sequence is the generated one rearranged by the session's accepted
\* placements only, the settled region holds one element more than
\* placements were accepted and is ordered, only the legal pick target is
\* offered, and isComplete is set only with the whole sequence settled.
C32_Session ==
    Insertion =>
        /\ decisions = 0 => (game.array = initialArray /\ ~game.isComplete)
        /\ IsPermutation(game.array, initialArray)
        /\ Cardinality(SettledRegion(game)) = 1 + decisions
        /\ OrderedUnder(game, SettledValues(game))
        /\ ui.pick \subseteq {pickIndex(game)}
        /\ game.isComplete =>
               /\ SettledRegion(game) = 0 .. (Len(game.array) - 1)
               /\ Ordered

\* A promptPick callback changes neither the sequence nor the boundary,
\* offers only the legal pick target, and completes only a session whose
\* settled region spans the sequence.
C32_Callback ==
    (Insertion /\ lastEvent'.op = "promptPick") =>
        /\ game'.array = game.array
        /\ game'.boundary = game.boundary
        /\ game'.currentVal = game.currentVal
        /\ game'.currentIndex = game.currentIndex
        /\ ui'.pick \subseteq ui.pick \cup {pickIndex(game)}
        /\ ui'.slots = ui.slots
        /\ game'.isComplete =>
               SettledRegion(game) = 0 .. (Len(game.array) - 1)

\* C32: if resetGame runs init on the current insertion engine after an
\* accepted placement and before its delayed promptPick has run, the stale
\* promptPick changes neither the new sequence nor the new boundary, offers
\* only the new session's legal pick target, and sets isComplete only if the
\* new session's settled region already spans its whole sequence.
C32_StalePromptPick == []C32_Session /\ [][C32_Callback]_vars

\* A stale promptPick has just run in a new session in which the learner had
\* already picked: no placement of the session was accepted.
C32_Witness ==
    /\ Insertion
    /\ sessions = 2
    /\ decisions = 0
    /\ lastEvent.op = "promptPick"
    /\ ui.slots # {}
    /\ ui.pick # {}

(***************************************************************************)
(* The cards marked sorted.                                                *)
(***************************************************************************)
\* The indices whose card carries the mark.
SortedCards ==
    IF ui.allSorted
    THEN {k \in 0 .. (Len(game.array) - 1) : CardExists(game, k)}
    ELSE ui.sorted

\* C33: in every engine and under both convergence directions, when
\* isComplete is true every index of the sequence is marked sorted, the one
\* element that was never the target of a pass, placement or selection
\* included (bubble: index 0 under right convergence, index length-1 under
\* left); before completion the bubble engine has exactly the indices of
\* its settled region marked (the last i under right convergence, the first
\* i under left), so after each pass exactly those.
C33_SettledMarking ==
    Started =>
        /\ game.isComplete => SortedCards = 0 .. (Len(game.array) - 1)
        /\ (game.kind = "bubble" /\ ~game.isComplete) =>
               SortedCards = FinalRegion(game)

\* A bubble game under right convergence has just completed: its last
\* nextStep marked index 1 and the completion marked index 0.
C33_Witness ==
    /\ Complete
    /\ BubbleOf("right")
    /\ lastEvent.op = "nextStep"
    /\ 0 \in SortedCards
    /\ 0 \notin ui.sorted
    /\ 1 \in ui.sorted

(***************************************************************************)
(* The engines of src/script.js, the earlier revision: ascending order,    *)
(* bubble towards the right end, insertion and selection from the left.    *)
(***************************************************************************)
\* An engine object of script.js after its constructor.
script_New(kind) ==
    [kind |-> kind, array |-> <<>>, isComplete |-> FALSE, i |-> 0, j |-> 0,
     sortedEndIndex |-> 0, currentVal |-> Undefined, currentIndex |-> Undefined,
     sortedIndex |-> 0]

\* a < b, a > b, a <= b of JavaScript: false when an operand is undefined.
script_lt(a, b) == a # Undefined /\ b # Undefined /\ a < b
script_gt(a, b) == a # Undefined /\ b # Undefined /\ a > b
script_le(a, b) == a # Undefined /\ b # Undefined /\ a <= b

\* init of the three engines, up to the first prompt.
script_promptPick(e) ==
    IF e.sortedEndIndex >= Len(e.array) - 1 THEN [e EXCEPT !.isComplete = TRUE]
    ELSE e

script_promptFindMin(e) ==
    IF e.sortedIndex >= Len(e.array) - 1 THEN [e EXCEPT !.isComplete = TRUE]
    ELSE e

script_init(kind, arr) ==
    LET e == [script_New(kind) EXCEPT !.array = arr]
    IN  IF kind = "bubble" THEN e
        ELSE IF kind = "insertion" THEN script_promptPick(e)
        ELSE script_promptFindMin(e)

\* correct of BubbleSortGame.handleAction
script_correct(e, action) ==
    IF action = "swap" THEN script_gt(At(e.array, e.j), At(e.array, e.j + 1))
    ELSE script_le(At(e.array, e.j), At(e.array, e.j + 1))

\* BubbleSortGame.handleAction
script_handleAction(e, action) ==
    IF e.isComplete THEN e
    ELSE IF script_correct(e, action) /\ action = "swap"
         THEN [e EXCEPT !.array =
                   WriteAt(WriteAt(e.array, e.j, At(e.array, e.j + 1)),
                           e.j + 1, At(e.array, e.j))]
         ELSE e

\* BubbleSortGame.nextStep: marking a card that does not exist throws and
\* ends the callback with only j moved.
script_nextStep(e) ==
    LET e1 == [e EXCEPT !.j = e.j + 1]
        endOfPass == e1.j >= Len(e.array) - 1 - e.i
        throws == endOfPass /\ ~CardOn(e.array, Len(e.array) - 1 - e.i)
        e2 == IF endOfPass THEN [e1 EXCEPT !.j = 0, !.i = e.i + 1] ELSE e1
    IN  IF throws THEN e1
        ELSE IF e2.i >= Len(e.array) - 1 THEN [e2 EXCEPT !.isComplete = TRUE]
        ELSE e2

\* targetIndex of InsertionSortGame.promptPick
script_targetIndex(e) == e.sortedEndIndex + 1

\* InsertionSortGame.handlePick
script_handlePick(e, index) ==
    [e EXCEPT !.currentVal = At(e.array, index), !.currentIndex = index]

\* The slots of InsertionSortGame.showSlots
script_slots(e) == 0 .. (e.sortedEndIndex + 1)

\* Mutation of script_correctSlotFrom: the scan stops at a settled value that
\* equals the picked one.
RECURSIVE script_correctSlotFrom_orEqual(_, _)
script_correctSlotFrom_orEqual(e, k) ==
    IF k > e.sortedEndIndex THEN k
    ELSE IF script_le(e.currentVal, At(e.array, k)) THEN k
    ELSE script_correctSlotFrom_orEqual(e, k + 1)

\* The loop of InsertionSortGame.handleInsert from index k: the first index
\* whose value is greater than the picked one, else one past the last index
\* scanned.
RECURSIVE script_correctSlotFrom(_, _)
script_correctSlotFrom(e, k) ==
    IF k > e.sortedEndIndex THEN k
    ELSE IF script_lt(e.currentVal, At(e.array, k)) THEN k
    ELSE script_correctSlotFrom(e, k + 1)

script_correctSlot(e) == IF e.sortedEndIndex < 0 THEN 0 ELSE script_correctSlotFrom(e, 0)

\* InsertionSortGame.handleInsert: the value removed at currentIndex is
\* inserted at the slot index as it is.
script_handleInsert(e, slotIndex) ==
    IF slotIndex = script_correctSlot(e)
    THEN [e EXCEPT !.array = InsertAt(RemoveAt(e.array, e.currentIndex), slotIndex,
                                      At(e.array, e.currentIndex)),
                   !.sortedEndIndex = e.sortedEndIndex + 1]
    ELSE e

\* The cards SelectionSortGame.promptFindMin makes clickable.
script_clickable(e) ==
    {k \in e.sortedIndex .. (Len(e.array) - 1) : CardOn(e.array, k)}

\* The scan of SelectionSortGame.handleSelection from index k.
RECURSIVE script_minFrom(_, _, _)
script_minFrom(e, k, minIdx) ==
    IF k > Len(e.array) - 1 THEN minIdx
    ELSE IF script_lt(At(e.array, k), At(e.array, minIdx))
         THEN script_minFrom(e, k + 1, k)
         ELSE script_minFrom(e, k + 1, minIdx)

script_minVal(e) == At(e.array, script_minFrom(e, e.sortedIndex + 1, e.sortedIndex))

\* pickedVal === minVal
script_selectionAccepted(e, index) == At(e.array, index) = script_minVal(e)

\* The 800 ms callback of an accepted selection.
script_swapCallback(e, index) ==
    [e EXCEPT !.array = WriteAt(WriteAt(e.array, e.sortedIndex, At(e.array, index)),
                                index, At(e.array, e.sortedIndex)),
              !.sortedIndex = e.sortedIndex + 1]

(***************************************************************************)
(* The two revisions side by side.                                         *)
(***************************************************************************)
\* The configuration script.js implements.
CommonConfig(g) ==
    /\ g.kind # "none"
    /\ g.sortOrder = "asc"
    /\ g.convergence = IF g.kind = "bubble" THEN "right" ELSE "left"

\* The engine of part_000 read as an engine of script.js.
AsScript(g) ==
    [kind |-> g.kind, array |-> g.array, isComplete |-> g.isComplete,
     i |-> g.i, j |-> g.j, sortedEndIndex |-> g.boundary,
     currentVal |-> g.currentVal, currentIndex |-> g.currentIndex,
     sortedIndex |-> g.sortedIndex]

\* What the page of script.js offers in the state e.
script_offers(e, u) ==
    /\ e.kind = "bubble" => (u.controls <=> ~e.isComplete)
    /\ e.kind = "insertion" =>
           /\ u.pick \subseteq {script_targetIndex(e)}
           /\ u.slots \in {{}, script_slots(e)}
    /\ e.kind = "selection" => u.clickable \in {{}, script_clickable(e)}

\* One step of the engine of part_000 is the step the engine of script.js
\* takes on the same call, with the same verdict.
C34_SameStep ==
    CommonConfig(game') =>
        LET e == AsScript(game)
            e2 == AsScript(game')
            op == lastEvent'.op
            index == lastEvent'.index
        IN  /\ game'.props = {}
            /\ script_offers(e2, ui')
            /\ op = "init" => e2 = script_init(game'.kind, initialArray')
            /\ op = "handleAction" =>
                   /\ lastEvent'.accepted <=> script_correct(e, lastEvent'.action)
                   /\ e2 = script_handleAction(e, lastEvent'.action)
            /\ op = "nextStep" => e2 = script_nextStep(e)
            /\ op = "handlePick" =>
                   /\ index = script_targetIndex(e)
                   /\ e2 = script_handlePick(e, index)
            /\ op = "handleInsert" =>
                   /\ index \in script_slots(e)
                   /\ lastEvent'.accepted <=> index = script_correctSlot(e)
                   /\ e2 = script_handleInsert(e, index)
            /\ op = "promptPick" => e2 = script_promptPick(e)
            /\ op = "handleSelection" =>
                   /\ index \in script_clickable(e)
                   /\ lastEvent'.accepted <=> script_selectionAccepted(e, index)
                   /\ e2 = e
            /\ op = "swap" => e2 = script_swapCallback(e, index)
            /\ op \in {"promptFindTarget", "reprompt"} =>
                   e2 = script_promptFindMin(e)

\* C34: on the common configuration (ascending order; right convergence for
\* bubble, left for insertion and selection), for every initial sequence and
\* every sequence of learner actions, one per prompt, the engines of
\* src/script.js and of src/unnamed/part_000 accept the same actions, reject
\* the same actions and pass through the same sequences, progress indices
\* and completion states.
C34_RevisionsAgree == [][C34_SameStep]_vars

\* A complete insertion game on the common configuration whose placements
\* moved values and met equal values.
C34_Witness ==
    /\ Complete
    /\ CommonConfig(game)
    /\ game.kind = "insertion"
    /\ game.array # initialArray
    /\ HasDuplicates(initialArray)
====
